---- MODULE Spec2Model ----
(***************************************************************************)
(* State-machine model of the task-manager backend: the auth service       *)
(* (register / verifyOtp / resendOtp), the task service and controller     *)
(* (createTask / updateTask / deleteTask), the user, task and notification *)
(* stores and the real-time emissions.                                     *)
(*                                                                         *)
(* Every handler is an async function; it runs atomically between two      *)
(* awaits on the store.  One action of the model is one such segment: the  *)
(* store call the handler was waiting for together with the synchronous    *)
(* code that follows it up to the next store call (or to the response).    *)
(* The first action of a handler also contains the middleware that runs    *)
(* before it (authenticate, validate), which touches no shared state.      *)
(***************************************************************************)
EXTENDS Integers, Sequences, FiniteSets, TLC

\* ------------------------------------------------------------------ bounds
MaxUsers == 2
MaxTasks == 1
MaxNotifs == 1

\* Two requests are in flight at a time: enough for every race between two
\* handlers.
Procs == {1, 2}
UserIds == 1..MaxUsers
TaskIds == 1..MaxTasks

\* ------------------------------------------------------- values and inputs
\* A field the body does not carry (zod .optional()) and an explicit null
\* (zod .nullable()); identifiers are the positive integers.
Undefined == -1
Null == 0

\* Points in time (dueDate, new Date()); DueDate is the one the task workflow
\* uses.
Times == 1..3
DueDate == 2

TODO == "To Do"
COMPLETED == "Completed"
NoStatus == "undefined"

RawEmails == {"a@x.io", "A@x.io", "b@x.io"}

\* The passwords sent; every registration sends RegisterPassword.
Passwords == {"Secret1a", "Secret2b"}
RegisterPassword == "Secret1a"

\* bcrypt.hash(password, salt)
hash(password) ==
    CASE password = "Secret1a" -> "$2b$12$Secret1a"
      [] password = "Secret2b" -> "$2b$12$Secret2b"
      [] OTHER -> "$2b$12$"

\* bcrypt.compare(candidatePassword, this.password)
comparePassword(candidatePassword, password) == hash(candidatePassword) = password

toLowerCase(email) == IF email = "A@x.io" THEN "a@x.io" ELSE email

EmailKeys == {toLowerCase(e) : e \in RawEmails}

\* generateOtp draws a six-digit code at random.
OtpCodes == {"100000", "999998"}
NoOtp == "null"

VARIABLES
    users,      \* User collection: sequence of documents, _id = position
    otps,       \* redis keys otp:verify:<email>
    tokens,     \* user ids a bearer token was issued for
    tasks,      \* Task collection: _id -> document
    nextTaskId, \* the next fresh ObjectId of a task
    notifs,     \* Notification collection, in creation order
    reqs,       \* the requests in flight, one per slot, with their locals
    resp,       \* the response the last step sent (NoReq when it sent none)
    sockets,    \* the socket.io sessions: connected, rooms joined, events received
    resetOtps   \* redis keys otp:reset:<email>

authVars == <<users, otps, tokens, resetOtps>>
taskVars == <<tasks, nextTaskId>>
vars == <<users, otps, tokens, tasks, nextTaskId, notifs, reqs, resp, sockets, resetOtps>>

\* ------------------------------------------------------------- credentials
\* A JWT names a user; jwt.verify accepts it when the signature is the
\* server's and it has not expired.  NoCred is an absent cookie or token.
Creds == [userId : UserIds, signed : BOOLEAN, expired : BOOLEAN]

NoCred == [userId |-> Null, signed |-> FALSE, expired |-> FALSE]

verifyTokenIgnoreExpiration(token) == IF token.signed THEN token.userId ELSE Null

\* The payload's userId, or null.
verifyToken(token) ==
    IF token.signed /\ ~token.expired THEN token.userId ELSE Null

\* The token a user holds after verifyOtp or login.
Token(userId) == [userId |-> userId, signed |-> TRUE, expired |-> FALSE]

authenticateUnverified(token) == IF token = NoCred THEN Null ELSE token.userId

\* The authenticate middleware: the user the request acts for, or null (401).
authenticate(token) == IF token = NoCred THEN Null ELSE verifyToken(token)

\* --------------------------------------------------------------- documents
NullTask ==
    [_id |-> Null, creatorId |-> Null, assignedToId |-> Null, status |-> NoStatus,
     dueDate |-> Null]

NoData ==
    [assignedToId |-> Undefined, status |-> NoStatus, creatorId |-> Undefined,
     dueDate |-> Undefined]

NoQuery ==
    [page |-> 0, limit |-> 0, sortBy |-> "", sortOrder |-> "", status |-> NoStatus,
     unreadOnly |-> FALSE]

\* A query parameter the request does not carry.
NoParam == "undefined"

\* req.query as received, before validate replaces it.
NoRawQuery ==
    [page |-> NoParam, limit |-> NoParam, sortBy |-> NoParam, sortOrder |-> NoParam,
     status |-> NoStatus]

\* TaskFilters with no member set.
NoFilters ==
    [status |-> NoStatus, creatorId |-> Null, assignedToId |-> Null, overdue |-> FALSE]

NoPagination ==
    [total |-> 0, page |-> 0, limit |-> 0, totalPages |-> 0,
     hasNextPage |-> FALSE, hasPrevPage |-> FALSE]

NoReq ==
    [op |-> "none", pc |-> "idle", cred |-> NoCred, userId |-> Null, taskId |-> Null,
     notificationId |-> Null, query |-> NoQuery, raw |-> NoRawQuery, count |-> 0,
     filters |-> NoFilters,
     now |-> Null, pagination |-> NoPagination,
     outcome |-> "", nexts |-> 0, password |-> "", user |-> [email |-> "", isVerified |-> FALSE, password |-> ""], token |-> NoCred,
     data |-> NoData, email |-> "", otp |-> NoOtp, storedOtp |-> NoOtp,
     task |-> NullTask, previousAssigneeId |-> Undefined,
     assigneeChanged |-> FALSE, status |-> 0, message |-> "",
     emitted |-> <<>>, notified |-> <<>>, result |-> <<>>]

\* res.status(..).json(..) or next(error): the request as received and its
\* outcome.  The locals die with the request.
Respond(r, status, message) ==
    [NoReq EXCEPT !.op = r.op, !.cred = r.cred, !.userId = r.userId,
                  !.taskId = r.taskId, !.notificationId = r.notificationId,
                  !.query = r.query, !.raw = r.raw, !.count = r.count,
                  !.filters = r.filters,
                  !.now = r.now, !.pagination = r.pagination,
                  !.outcome = r.outcome, !.nexts = r.nexts, !.password = r.password,
                  !.token = r.token,
                  !.data = r.data, !.email = r.email,
                  !.previousAssigneeId = r.previousAssigneeId,
                  !.assigneeChanged = r.assigneeChanged,
                  !.emitted = r.emitted, !.notified = r.notified,
                  !.result = r.result,
                  !.status = status, !.message = message, !.pc = "done"]

\* A step leaves request r in slot p: in flight, or answered and the slot free.
Step(p, r) ==
    IF r.pc = "done"
    THEN reqs' = [reqs EXCEPT ![p] = NoReq] /\ resp' = r
    ELSE reqs' = [reqs EXCEPT ![p] = r] /\ resp' = NoReq

\* A new request takes the first free slot (the slots are interchangeable),
\* once the last response is on the wire.
Free(p) ==
    /\ resp = NoReq
    /\ reqs[p].op = "none"
    /\ \A q \in Procs : q < p => reqs[q].op # "none"

\* The 401 of the authenticate middleware.
Unauthorized(r) ==
    IF r.cred = NoCred THEN Respond(r, 401, "Authentication required. Please log in.")
    ELSE Respond(r, 401, "Invalid or expired token. Please log in again.")

Emit(r, event, room, payload) ==
    [r EXCEPT !.emitted = Append(@, [event |-> event, room |-> room, data |-> payload])]

\* io.emit reaches every connected socket; io.to("user:<id>") one room.
Broadcast == Null

\* --------------------------------------------------------------- socket.io
SocketIds == {1, 2}

\* rooms: the ids u of the rooms user:<u> the socket is in; presented: the
\* users for whom the session sent a credential that is signed and unexpired;
\* received: the events delivered to the client.
NoSocket ==
    [connected |-> FALSE, rooms |-> {}, taskboard |-> FALSE, presented |-> {},
     received |-> {}]

NoSockets == [s \in SocketIds |-> NoSocket]

TaskEvents == {"task:created", "task:updated", "task:deleted"}

Received(sock, event, room) ==
    [sock EXCEPT !.received = @ \cup {[event |-> event, room |-> room]}]

ToSocket == Undefined

\* io.to(`user:${userId}`).emit(event): the sockets in that room.
EmitToEveryone(socks, userId, event) ==
    [s \in SocketIds |->
        IF socks[s].connected THEN Received(socks[s], event, userId) ELSE socks[s]]

EmitToUser(socks, userId, event) ==
    [s \in SocketIds |->
        IF socks[s].connected /\ userId \in socks[s].rooms
        THEN Received(socks[s], event, userId) ELSE socks[s]]

\* io.on('connection'): a new session, in no room.
Connect(s) ==
    /\ ~sockets[s].connected
    /\ sockets' = [sockets EXCEPT ![s] = [NoSocket EXCEPT !.connected = TRUE]]
    /\ UNCHANGED <<users, otps, tokens, tasks, nextTaskId, notifs, reqs, resp, resetOtps>>

\* socket.on('disconnect'): the session leaves every room.
Disconnect(s) ==
    /\ sockets[s].connected
    /\ sockets' = [sockets EXCEPT ![s] = NoSocket]
    /\ UNCHANGED <<users, otps, tokens, tasks, nextTaskId, notifs, reqs, resp, resetOtps>>

\* socket.on('authenticate', token)
Authenticate(s, token) ==
    /\ sockets[s].connected
    /\ token.signed => token.userId \in tokens
    /\ LET payload == verifyToken(token)
           sock == [sockets[s] EXCEPT
                       !.presented = IF token.signed /\ ~token.expired
                                     THEN @ \cup {token.userId} ELSE @]
       IN  sockets' = [sockets EXCEPT ![s] =
                IF payload # Null
                THEN Received([sock EXCEPT !.rooms = @ \cup {payload}],
                              "authenticated", ToSocket)
                ELSE Received(sock, "authentication_error", ToSocket)]
    /\ UNCHANGED <<users, otps, tokens, tasks, nextTaskId, notifs, reqs, resp, resetOtps>>

\* socket.on('join:taskboard') and socket.on('leave:taskboard')
JoinTaskboard(s) ==
    /\ sockets[s].connected
    /\ ~sockets[s].taskboard
    /\ sockets' = [sockets EXCEPT ![s].taskboard = TRUE]
    /\ UNCHANGED <<users, otps, tokens, tasks, nextTaskId, notifs, reqs, resp, resetOtps>>

LeaveTaskboard(s) ==
    /\ sockets[s].connected
    /\ sockets[s].taskboard
    /\ sockets' = [sockets EXCEPT ![s].taskboard = FALSE]
    /\ UNCHANGED <<users, otps, tokens, tasks, nextTaskId, notifs, reqs, resp, resetOtps>>

\* A controller's io.emit('task:...') for a task mutation.
EmitTaskEvent(event) ==
    /\ sockets' = [s \in SocketIds |->
                        IF sockets[s].connected THEN Received(sockets[s], event, Null)
                        ELSE sockets[s]]
    /\ UNCHANGED <<users, otps, tokens, tasks, nextTaskId, notifs, reqs, resp, resetOtps>>

\* A controller's io.to(`user:${assignee}`).emit('notification:assigned').
NotifyUser(userId) ==
    /\ sockets' = EmitToUser(sockets, userId, "notification:assigned")
    /\ UNCHANGED <<users, otps, tokens, tasks, nextTaskId, notifs, reqs, resp, resetOtps>>

\* ----------------------------------------------------------- user directory
UserExists(us, id) == id \in 1..Len(us)

findUserById(us, id) == IF UserExists(us, id) THEN id ELSE Null

findByEmail(us, email) ==
    LET key == toLowerCase(email)
        hits == {i \in 1..Len(us) : us[i].email = key}
    IN  IF hits = {} THEN Null ELSE CHOOSE i \in hits : \A j \in hits : i <= j

updateByEmail(us, email, isVerified) ==
    LET id == findByEmail(us, email)
    IN  IF id = Null THEN us ELSE [us EXCEPT ![id].isVerified = isVerified]

\* new User(data).save(): the pre-save hook stores the bcrypt hash.
createUser(us, email, password) ==
    Append(us, [email |-> toLowerCase(email), isVerified |-> FALSE,
                password |-> hash(password)])

registerSchema(rawEmail) == toLowerCase(rawEmail)

\* The response leaves the server.
SendResponse ==
    /\ resp # NoReq
    /\ resp' = NoReq
    /\ UNCHANGED <<users, otps, tokens, tasks, nextTaskId, notifs, reqs, sockets, resetOtps>>

\* ------------------------------------------------------------- auth service
OtpMatchesAlways(storedOtp, otp) == TRUE

\* String(storedOtp) !== String(data.otp)
OtpMatches(storedOtp, otp) == storedOtp = otp

Register(p, rawEmail) ==
    /\ Free(p)
    /\ LET email == registerSchema(rawEmail)
           r == [NoReq EXCEPT !.op = "register", !.email = email]
       IN  Step(p, IF findByEmail(users, email) # Null
                   THEN Respond(r, 409, "Email already registered")
                   ELSE [r EXCEPT !.pc = "storeOtp"])
    /\ UNCHANGED <<authVars, taskVars, notifs, sockets>>

StoreVerificationOtp(p, otp) ==
    /\ reqs[p].pc = "storeOtp"
    /\ otps' = [otps EXCEPT ![toLowerCase(reqs[p].email)] = otp]
    /\ Step(p, [reqs[p] EXCEPT !.otp = otp,
                               !.pc = IF reqs[p].op = "register" THEN "createUser"
                                      ELSE "sendEmail"])
    /\ UNCHANGED <<users, tokens, taskVars, notifs, sockets, resetOtps>>

RegisterCreateUserUnindexed(p) ==
    /\ reqs[p].pc = "createUser"
    /\ Len(users) < MaxUsers
    /\ users' = createUser(users, reqs[p].email, RegisterPassword)
    /\ Step(p, [reqs[p] EXCEPT !.userId = Len(users) + 1, !.pc = "sendEmail"])
    /\ UNCHANGED <<otps, tokens, taskVars, notifs, sockets, resetOtps>>

\* userRepository.create: the insert, which the unique index on email refuses
\* when a user with that email was stored since the service's findByEmail.
RegisterCreateUser(p) ==
    /\ reqs[p].pc = "createUser"
    /\ IF findByEmail(users, reqs[p].email) # Null
       THEN \* the unique index on email rejects the insert (code 11000)
            /\ Step(p, Respond(reqs[p], 409, "Duplicate entry. This value already exists."))
            /\ UNCHANGED users
       ELSE /\ Len(users) < MaxUsers
            /\ users' = createUser(users, reqs[p].email, RegisterPassword)
            /\ Step(p, [reqs[p] EXCEPT !.userId = Len(users) + 1, !.pc = "sendEmail"])
    /\ UNCHANGED <<otps, tokens, taskVars, notifs, sockets, resetOtps>>

\* emailService.sendVerificationOtp throws when the provider refuses.
SendVerificationOtp(p, ok) ==
    /\ reqs[p].pc = "sendEmail"
    /\ Step(p, IF ~ok THEN Respond(reqs[p], 500, "Internal server error")
               ELSE IF reqs[p].op = "register"
                    THEN Respond(reqs[p], 201, "Registration successful. Please check your email for verification OTP.")
                    ELSE Respond(reqs[p], 200, "OTP sent successfully"))
    /\ UNCHANGED <<authVars, taskVars, notifs, sockets>>

VerifyOtp(p, rawEmail, otp) ==
    /\ Free(p)
    /\ LET email == registerSchema(rawEmail)
           user == findByEmail(users, email)
           r == [NoReq EXCEPT !.op = "verifyOtp", !.email = email, !.otp = otp,
                              !.userId = user]
       IN  Step(p, IF user = Null THEN Respond(r, 404, "User not found")
                   ELSE IF users[user].isVerified
                        THEN Respond(r, 400, "Account already verified")
                        ELSE [r EXCEPT !.pc = "getOtp"])
    /\ UNCHANGED <<authVars, taskVars, notifs, sockets>>

VerifyGetOtp(p) ==
    /\ reqs[p].pc = "getOtp"
    /\ LET storedOtp == otps[toLowerCase(reqs[p].email)]
           r == [reqs[p] EXCEPT !.storedOtp = storedOtp]
       IN  Step(p, IF storedOtp = NoOtp
                   THEN Respond(r, 400, "OTP has expired or not found. Please request a new one.")
                   ELSE IF ~OtpMatches(storedOtp, r.otp)
                        THEN Respond(r, 400, "Invalid OTP")
                        ELSE [r EXCEPT !.pc = "setVerified"])
    /\ UNCHANGED <<authVars, taskVars, notifs, sockets>>

VerifySetVerified(p) ==
    /\ reqs[p].pc = "setVerified"
    /\ users' = updateByEmail(users, reqs[p].email, TRUE)
    /\ Step(p, [reqs[p] EXCEPT !.pc = "deleteOtp"])
    /\ UNCHANGED <<otps, tokens, taskVars, notifs, sockets, resetOtps>>

\* deleteVerificationOtp, then generateToken and the response.
VerifyDeleteOtp(p) ==
    /\ reqs[p].pc = "deleteOtp"
    /\ otps' = [otps EXCEPT ![toLowerCase(reqs[p].email)] = NoOtp]
    /\ tokens' = tokens \cup {reqs[p].userId}
    /\ Step(p, Respond([reqs[p] EXCEPT !.token = Token(reqs[p].userId)],
                       200, "Email verified successfully"))
    /\ UNCHANGED <<users, taskVars, notifs, sockets, resetOtps>>

ResendOtp(p, rawEmail) ==
    /\ Free(p)
    /\ LET email == registerSchema(rawEmail)
           user == findByEmail(users, email)
           r == [NoReq EXCEPT !.op = "resendOtp", !.email = email, !.userId = user]
       IN  Step(p, IF user = Null THEN Respond(r, 404, "User not found")
                   ELSE IF users[user].isVerified
                        THEN Respond(r, 400, "Account already verified")
                        ELSE [r EXCEPT !.pc = "storeOtp"])
    /\ UNCHANGED <<authVars, taskVars, notifs, sockets>>

\* The redis key lapses after OTP_EXPIRY_SECONDS.
OtpExpire(email) ==
    /\ otps[email] # NoOtp
    /\ otps' = [otps EXCEPT ![email] = NoOtp]
    /\ resp' = NoReq
    /\ UNCHANGED <<users, tokens, taskVars, notifs, reqs, sockets, resetOtps>>

\* ------------------------------------------------------------ rate limiting
\* What limiter.limit(identifier) does: it resolves with success true or
\* false, or it rejects.
LimiterOutcomes == {"success", "blocked", "threw"}

LimitedRoutes == {"login", "forgotPassword", "resetPassword"}

\* next(): the request goes on to validate(schema) and the controller.
CallNext(r) == [r EXCEPT !.nexts = @ + 1, !.pc = "next"]

rateLimitFailClosed(r, outcome) ==
    IF outcome = "success" THEN CallNext([r EXCEPT !.outcome = outcome])
    ELSE Respond([r EXCEPT !.outcome = outcome], 429,
                 "Too many requests. Please try again later.")

\* The continuation of the rateLimit middleware after await limiter.limit.
rateLimit(r, outcome) ==
    CASE outcome = "threw" -> CallNext([r EXCEPT !.outcome = outcome])
      [] outcome = "blocked" ->
            Respond([r EXCEPT !.outcome = outcome], 429,
                    "Too many requests. Please try again later.")
      [] outcome = "success" -> CallNext([r EXCEPT !.outcome = outcome])

\* A request to a rate-limited route arrives: the middleware calls the limiter.
RateLimit(p, route, rawEmail, otp, password) ==
    /\ Free(p)
    /\ Step(p, [NoReq EXCEPT !.op = route, !.pc = "limit", !.email = rawEmail,
                             !.otp = otp, !.password = password])
    /\ UNCHANGED <<authVars, taskVars, notifs, sockets>>

\* The limiter call settles.
RateLimitSettle(p, outcome) ==
    /\ reqs[p].pc = "limit"
    /\ Step(p, rateLimit(reqs[p], outcome))
    /\ UNCHANGED <<authVars, taskVars, notifs, sockets>>

\* ---------------------------------------------------- login, password reset
\* loginSchema, forgotPasswordSchema, resetPasswordSchema: .toLowerCase().trim()
accountSchema(rawEmail) == toLowerCase(rawEmail)

\* A value as JavaScript holds it.
Str(text) == [type |-> "string", text |-> text]

\* redis.get<string>(key): null, the string stored, or, when the client
\* deserializes what it reads, the number the digits spell.
JsNull == [type |-> "null", text |-> ""]

redisGet(stored) ==
    IF stored = NoOtp THEN {JsNull}
    ELSE {Str(stored), [type |-> "number", text |-> stored]}

\* findOneAndUpdate({ email }, { password }): the first user with the email.
updatePassword(us, email, password) ==
    LET id == findByEmail(us, email)
    IN  IF id = Null THEN us ELSE [us EXCEPT ![id].password = password]

\* ---- POST /api/auth/login: validate, then findByEmailWithPassword
Login(p) ==
    /\ reqs[p].op = "login" /\ reqs[p].pc = "next"
    /\ LET email == accountSchema(reqs[p].email)
           user == findByEmail(users, email)
           r == [reqs[p] EXCEPT !.email = email, !.userId = user, !.outcome = ""]
       IN  Step(p, IF user = Null THEN Respond(r, 401, "Invalid email or password")
                   ELSE [r EXCEPT !.user = users[user], !.pc = "comparePassword"])
    /\ UNCHANGED <<authVars, taskVars, notifs, sockets>>

LoginIssuesUnverified(user) == TRUE

\* !user.isVerified, on the document login read
LoginVerified(user) == user.isVerified

\* user.comparePassword has settled: the checks, generateToken, the cookie.
LoginComparePassword(p) ==
    /\ reqs[p].pc = "comparePassword"
    /\ LET r == reqs[p]
           ok == comparePassword(r.password, r.user.password) /\ LoginVerified(r.user)
       IN  /\ tokens' = IF ok THEN tokens \cup {r.userId} ELSE tokens
           /\ Step(p, IF ~comparePassword(r.password, r.user.password)
                      THEN Respond(r, 401, "Invalid email or password")
                      ELSE IF ~LoginVerified(r.user)
                           THEN Respond(r, 403, "Please verify your email before logging in")
                           ELSE Respond([r EXCEPT !.token = Token(r.userId)],
                                        200, "Login successful"))
    /\ UNCHANGED <<users, otps, resetOtps, taskVars, notifs, sockets>>

ForgotPasswordMessage ==
    "If your email is registered, you will receive a password reset OTP"

\* ---- POST /api/auth/forgot-password
ForgotPassword(p) ==
    /\ reqs[p].op = "forgotPassword" /\ reqs[p].pc = "next"
    /\ LET email == accountSchema(reqs[p].email)
           user == findByEmail(users, email)
           r == [reqs[p] EXCEPT !.email = email, !.userId = user, !.outcome = ""]
       IN  Step(p, IF user = Null THEN Respond(r, 200, ForgotPasswordMessage)
                   ELSE [r EXCEPT !.pc = "storeResetOtp"])
    /\ UNCHANGED <<authVars, taskVars, notifs, sockets>>

\* generateOtp, storeResetOtp
StoreResetOtp(p, otp) ==
    /\ reqs[p].pc = "storeResetOtp"
    /\ resetOtps' = [resetOtps EXCEPT ![toLowerCase(reqs[p].email)] = otp]
    /\ Step(p, [reqs[p] EXCEPT !.storedOtp = otp, !.pc = "sendResetEmail"])
    /\ UNCHANGED <<users, otps, tokens, taskVars, notifs, sockets>>

\* emailService.sendPasswordResetOtp throws when the provider refuses.
SendPasswordResetOtp(p, ok) ==
    /\ reqs[p].pc = "sendResetEmail"
    /\ Step(p, IF ok THEN Respond(reqs[p], 200, ForgotPasswordMessage)
               ELSE Respond(reqs[p], 500, "Internal server error"))
    /\ UNCHANGED <<authVars, taskVars, notifs, sockets>>

\* The answer of resetPassword, with the code the request carried.
RespondReset(r, status, message) == [Respond(r, status, message) EXCEPT !.otp = r.otp]

\* ---- POST /api/auth/reset-password
ResetPassword(p) ==
    /\ reqs[p].op = "resetPassword" /\ reqs[p].pc = "next"
    /\ LET email == accountSchema(reqs[p].email)
           user == findByEmail(users, email)
           r == [reqs[p] EXCEPT !.email = email, !.userId = user, !.outcome = ""]
       IN  Step(p, IF user = Null THEN RespondReset(r, 404, "User not found")
                   ELSE [r EXCEPT !.pc = "getResetOtp"])
    /\ UNCHANGED <<authVars, taskVars, notifs, sockets>>

ResetGetOtp(p) ==
    /\ reqs[p].pc = "getResetOtp"
    /\ \E storedOtp \in redisGet(resetOtps[toLowerCase(reqs[p].email)]) :
          Step(p, IF storedOtp = JsNull
                  THEN RespondReset(reqs[p], 400,
                           "OTP has expired or not found. Please request a new one.")
                  ELSE IF storedOtp # Str(reqs[p].otp)   \* storedOtp !== data.otp
                       THEN RespondReset(reqs[p], 400, "Invalid OTP")
                       ELSE [reqs[p] EXCEPT !.pc = "updatePassword"])
    /\ UNCHANGED <<authVars, taskVars, notifs, sockets>>

\* bcrypt.genSalt and bcrypt.hash have settled: updateByEmail
ResetUpdatePassword(p) ==
    /\ reqs[p].pc = "updatePassword"
    /\ users' = updatePassword(users, reqs[p].email, hash(reqs[p].password))
    /\ Step(p, [reqs[p] EXCEPT !.pc = "deleteResetOtp"])
    /\ UNCHANGED <<otps, tokens, resetOtps, taskVars, notifs, sockets>>

ResetDeleteOtp(p) ==
    /\ reqs[p].pc = "deleteResetOtp"
    /\ resetOtps' = [resetOtps EXCEPT ![toLowerCase(reqs[p].email)] = NoOtp]
    /\ Step(p, RespondReset(reqs[p], 200, "Password reset successfully"))
    /\ UNCHANGED <<users, otps, tokens, taskVars, notifs, sockets>>

\* The redis key lapses after OTP_EXPIRY_SECONDS.
ResetOtpExpire(email) ==
    /\ resetOtps[email] # NoOtp
    /\ resetOtps' = [resetOtps EXCEPT ![email] = NoOtp]
    /\ resp' = NoReq
    /\ UNCHANGED <<users, otps, tokens, taskVars, notifs, reqs, sockets>>

\* ---------------------------------------------------------------- task store
findById(ts, id) == IF id \in DOMAIN ts THEN ts[id] ELSE NullTask

\* populate replaces a reference by the user's document, or by null when no
\* such user exists.
populate(us, task) ==
    IF task._id = Null THEN task
    ELSE [task EXCEPT !.creatorId = findUserById(us, @),
                      !.assignedToId = findUserById(us, @)]

Patch(doc, data) ==
    [_id |-> doc._id,
     creatorId |-> IF data.creatorId # Undefined THEN data.creatorId ELSE doc.creatorId,
     assignedToId |-> IF data.assignedToId # Undefined THEN data.assignedToId
                      ELSE doc.assignedToId,
     status |-> IF data.status # NoStatus THEN data.status ELSE doc.status,
     dueDate |-> IF data.dueDate # Undefined THEN data.dueDate ELSE doc.dueDate]

updateByIdUpsert(ts, id, data) ==
    [t \in DOMAIN ts \cup {id} |->
        IF t = id THEN Patch(IF id \in DOMAIN ts THEN ts[id]
                             ELSE [NullTask EXCEPT !._id = id], data)
        ELSE ts[t]]

updateById(ts, id, data) ==
    [t \in DOMAIN ts |-> IF t = id THEN Patch(ts[t], data) ELSE ts[t]]

deleteById(ts, id) == [t \in DOMAIN ts \ {id} |-> ts[t]]

createTaskDoc(ts, id, data, creatorId) ==
    [t \in DOMAIN ts \cup {id} |->
        IF t = id
        THEN [_id |-> id, creatorId |-> creatorId,
              assignedToId |-> IF data.assignedToId = Undefined THEN Null
                               ELSE data.assignedToId,
              status |-> IF data.status = NoStatus THEN TODO ELSE data.status,
              dueDate |-> data.dueDate]
        ELSE ts[t]]

createNotification(ns, userId, message, taskId) ==
    Append(ns, [userId |-> userId, type |-> "task_assigned", message |-> message,
                taskId |-> taskId, isRead |-> FALSE])

\* ------------------------------------------------------------------- DTOs
\* z.object strips the keys the schema does not name.
updateTaskSchemaPassthrough(raw) == raw

updateTaskSchema(raw) == [raw EXCEPT !.creatorId = Undefined]

createTaskSchema(raw) ==
    [assignedToId |-> raw.assignedToId,
     status |-> IF raw.status = NoStatus THEN TODO ELSE raw.status,
     creatorId |-> Undefined,
     dueDate |-> raw.dueDate]

RawCreateBodies ==
    [assignedToId : {Undefined} \cup UserIds, status : {NoStatus},
     creatorId : {Undefined}, dueDate : {DueDate}]

RawUpdateBodies ==
    [assignedToId : {Undefined, Null} \cup UserIds, status : {NoStatus, COMPLETED},
     creatorId : {Undefined} \cup UserIds, dueDate : {Undefined}]

\* -------------------------------------------------------------- task service
Truthy(id) == id # Undefined /\ id # Null

\* 0 when the assignee may be assigned, else the status the service throws.
validateAssigneeUnchecked(us, id) == IF findUserById(us, id) = Null THEN 404 ELSE 0

validateAssigneeSwapped(us, id) ==
    IF findUserById(us, id) = Null THEN 400
    ELSE IF ~us[id].isVerified THEN 404
    ELSE 0

validateAssignee(us, id) ==
    IF findUserById(us, id) = Null THEN 404
    ELSE IF ~us[id].isVerified THEN 400
    ELSE 0

AssigneeError(r, code) ==
    IF code = 404 THEN Respond(r, 404, "Assigned user not found")
    ELSE Respond(r, 400, "Cannot assign task to unverified user")

\* task.creatorId._id.toString() !== userId, in updateTask and in deleteTask
UpdateAuthorizedForAssignee(task, userId) ==
    task.creatorId = userId \/ task.assignedToId = userId

UpdateAuthorized(task, userId) == task.creatorId = userId

DeleteAuthorizedForAll(task, userId) == TRUE

DeleteAuthorized(task, userId) == task.creatorId = userId

\* task.assignedToId?._id?.toString()
previousAssigneeId(task) ==
    IF task.assignedToId = Null THEN Undefined ELSE task.assignedToId

AssigneeChanged(data, previous) ==
    data.assignedToId # Undefined /\ data.assignedToId # previous

UpdateNotifiesAlways(changed, data, userId) == Truthy(data.assignedToId)

UpdateNotifies(changed, data, userId) ==
    changed /\ Truthy(data.assignedToId) /\ data.assignedToId # userId

UpdateAlerts(changed, task, userId) ==
    changed /\ task.assignedToId # Null /\ task.assignedToId # userId

CreateNotifies(data, creatorId) ==
    Truthy(data.assignedToId) /\ data.assignedToId # creatorId

CreateAlerts(task, userId) ==
    task.assignedToId # Null /\ task.assignedToId # userId

\* ---- createTask
CreateTask(p, token, raw) ==
    /\ Free(p)
    /\ token.signed => token.userId \in tokens
    /\ LET userId == authenticate(token)
           data == createTaskSchema(raw)
           r == [NoReq EXCEPT !.op = "createTask", !.cred = token, !.userId = userId,
                              !.data = data]
           code == IF Truthy(data.assignedToId)
                   THEN validateAssignee(users, data.assignedToId) ELSE 0
       IN  Step(p, IF userId = Null THEN Unauthorized([r EXCEPT !.data = NoData])
                   ELSE IF code # 0 THEN AssigneeError(r, code)
                   ELSE [r EXCEPT !.pc = "create"])
    /\ UNCHANGED <<authVars, taskVars, notifs, sockets>>

CreateTaskSave(p) ==
    /\ reqs[p].pc = "create"
    /\ nextTaskId <= MaxTasks
    /\ tasks' = createTaskDoc(tasks, nextTaskId, reqs[p].data, reqs[p].userId)
    /\ nextTaskId' = nextTaskId + 1
    /\ Step(p, [reqs[p] EXCEPT !.taskId = nextTaskId,
                               !.pc = IF CreateNotifies(reqs[p].data, reqs[p].userId)
                                      THEN "notifyCreated" ELSE "refetch"])
    /\ UNCHANGED <<authVars, notifs, sockets>>

CreateTaskNotify(p) ==
    /\ reqs[p].pc = "notifyCreated"
    /\ Len(notifs) < MaxNotifs
    /\ notifs' = createNotification(notifs, reqs[p].data.assignedToId,
                                    "You have been assigned a new task", reqs[p].taskId)
    /\ Step(p, [reqs[p] EXCEPT !.notified = Append(@, Len(notifs) + 1), !.pc = "refetch"])
    /\ UNCHANGED <<authVars, taskVars, sockets>>

\* getIO() throws while the socket server is not initialised and io.emit may
\* throw; the controllers call both inside their try block, so the error goes
\* to next(error) and the error handler answers it.
EmitFailed(r) == Respond(r, 500, "Internal server error")

\* The service's last findById and the controller's code after it; emits is
\* whether getIO() and the emissions succeed.
CreateTaskRespond(p, emits) ==
    /\ reqs[p].pc = "refetch"
    /\ LET task == populate(users, findById(tasks, reqs[p].taskId))
           r1 == Emit(reqs[p], "task:created", Broadcast, task._id)
       IN  Step(p, IF ~emits THEN EmitFailed(reqs[p])
                   ELSE IF task._id = Null
                   THEN \* task.assignedToId of null throws a TypeError
                        Respond(r1, 500, "Internal server error")
                   ELSE IF CreateAlerts(task, r1.userId)
                        THEN Respond(Emit(r1, "notification:assigned", task.assignedToId, task._id),
                                     201, "Task created successfully")
                        ELSE Respond(r1, 201, "Task created successfully"))
    /\ UNCHANGED <<authVars, taskVars, notifs, sockets>>

\* ---- updateTask
ToWriteBroadcast(r) ==
    LET previous == previousAssigneeId(r.task)
    IN  Emit([r EXCEPT !.previousAssigneeId = previous,
                       !.assigneeChanged = AssigneeChanged(r.data, previous),
                       !.task = NullTask,
                       !.pc = "write"],
             "task:updated", Broadcast, r.taskId)

\* previousAssigneeId and assigneeChanged are computed from the document read
\* at the start; the document itself is not used again.
ToWrite(r) ==
    LET previous == previousAssigneeId(r.task)
    IN  [r EXCEPT !.previousAssigneeId = previous,
                  !.assigneeChanged = AssigneeChanged(r.data, previous),
                  !.task = NullTask,
                  !.pc = "write"]

UpdateTask(p, token, taskId, raw) ==
    /\ Free(p)
    /\ token.signed => token.userId \in tokens
    /\ LET userId == authenticate(token)
           data == updateTaskSchema(raw)
           task == populate(users, findById(tasks, taskId))
           r == [NoReq EXCEPT !.op = "updateTask", !.cred = token, !.userId = userId,
                              !.taskId = taskId, !.data = data, !.task = task]
       IN  Step(p, IF userId = Null
                   THEN Unauthorized([r EXCEPT !.data = NoData, !.task = NullTask])
                   ELSE IF task._id = Null THEN Respond(r, 404, "Task not found")
                   ELSE IF ~UpdateAuthorized(task, userId)
                        THEN Respond(r, 403, "You are not authorized to update this task")
                        ELSE IF Truthy(data.assignedToId)
                             THEN [r EXCEPT !.pc = "checkAssignee"]
                             ELSE ToWrite(r))
    /\ UNCHANGED <<authVars, taskVars, notifs, sockets>>

UpdateTaskCheckAssignee(p) ==
    /\ reqs[p].pc = "checkAssignee"
    /\ LET code == validateAssignee(users, reqs[p].data.assignedToId)
       IN  Step(p, IF code # 0 THEN AssigneeError(reqs[p], code) ELSE ToWrite(reqs[p]))
    /\ UNCHANGED <<authVars, taskVars, notifs, sockets>>

\* The controller's code after taskService.updateTask returned.
UpdateTaskEmit(r, emits) ==
    LET r1 == Emit(r, "task:updated", Broadcast, r.task._id)
    IN  IF ~emits THEN EmitFailed(r)
        ELSE IF UpdateAlerts(r.assigneeChanged, r.task, r.userId)
             THEN [r1 EXCEPT !.pc = "findAssigner"]
             ELSE Respond(r1, 200, "Task updated successfully")

UpdateTaskWrite(p, emits) ==
    /\ reqs[p].pc = "write"
    /\ tasks' = updateById(tasks, reqs[p].taskId, reqs[p].data)
    /\ LET updatedTask == populate(users, findById(tasks', reqs[p].taskId))
           r == [reqs[p] EXCEPT !.task = updatedTask]
       IN  Step(p, IF updatedTask._id = Null THEN Respond(r, 500, "Failed to update task")
                   ELSE IF UpdateNotifies(r.assigneeChanged, r.data, r.userId)
                        THEN [r EXCEPT !.pc = "notifyUpdated"]
                        ELSE UpdateTaskEmit(r, emits))
    /\ UNCHANGED <<authVars, nextTaskId, notifs, sockets>>

UpdateTaskNotify(p, emits) ==
    /\ reqs[p].pc = "notifyUpdated"
    /\ Len(notifs) < MaxNotifs
    /\ notifs' = createNotification(notifs, reqs[p].data.assignedToId,
                                    "You have been assigned a task", reqs[p].task._id)
    /\ Step(p, UpdateTaskEmit([reqs[p] EXCEPT !.notified = Append(@, Len(notifs) + 1)],
                               emits))
    /\ UNCHANGED <<authVars, taskVars, sockets>>

\* userRepository.findById(userId) for the assigner's name, then the alert.
UpdateTaskAlert(p, emits) ==
    /\ reqs[p].pc = "findAssigner"
    /\ Step(p, IF ~emits THEN EmitFailed(reqs[p])
               ELSE Respond(Emit(reqs[p], "notification:assigned",
                                 reqs[p].task.assignedToId, reqs[p].task._id),
                            200, "Task updated successfully"))
    /\ UNCHANGED <<authVars, taskVars, notifs, sockets>>

\* ---- deleteTask
DeleteTask(p, token, taskId) ==
    /\ Free(p)
    /\ token.signed => token.userId \in tokens
    /\ LET userId == authenticate(token)
           task == populate(users, findById(tasks, taskId))
           r == [NoReq EXCEPT !.op = "deleteTask", !.cred = token, !.userId = userId,
                              !.taskId = taskId]
       IN  Step(p, IF userId = Null THEN Unauthorized(r)
                   ELSE IF task._id = Null THEN Respond(r, 404, "Task not found")
                   ELSE IF ~DeleteAuthorized(task, userId)
                        THEN Respond(r, 403, "You are not authorized to delete this task")
                        ELSE [r EXCEPT !.pc = "delete"])
    /\ UNCHANGED <<authVars, taskVars, notifs, sockets>>

DeleteTaskRemove(p, emits) ==
    /\ reqs[p].pc = "delete"
    /\ tasks' = deleteById(tasks, reqs[p].taskId)
    /\ Step(p, IF ~emits THEN EmitFailed(reqs[p])
               ELSE Respond(Emit(reqs[p], "task:deleted", Broadcast, reqs[p].taskId),
                            200, "Task deleted successfully"))
    /\ UNCHANGED <<authVars, nextTaskId, notifs, sockets>>

\* ------------------------------------------------------- notification store
ListLimit == 50

RECURSIVE SortAscending(_)
SortAscending(S) ==
    IF S = {} THEN <<>>
    ELSE LET m == CHOOSE x \in S : \A y \in S : x <= y
         IN  <<m>> \o SortAscending(S \ {m})

\* sort({ createdAt: -1 }): the documents were created in the order of their ids.
RECURSIVE SortDescending(_)
SortDescending(S) ==
    IF S = {} THEN <<>>
    ELSE LET m == CHOOSE x \in S : \A y \in S : y <= x
         IN  <<m>> \o SortDescending(S \ {m})

LimitOldest(seq, n) ==
    SubSeq(seq, IF Len(seq) < n THEN 1 ELSE Len(seq) - n + 1, Len(seq))

Limit(seq, n) == SubSeq(seq, 1, IF Len(seq) < n THEN Len(seq) ELSE n)

\* Notification.find(query).populate('taskId', 'title').sort(..).limit(50)
findByUser(ns, ts, userId, unreadOnly) ==
    LET hits == {i \in 1..Len(ns) :
                    ns[i].userId = userId /\ (unreadOnly => ~ns[i].isRead)}
        ids == Limit(SortDescending(hits), ListLimit)
    IN  [k \in 1..Len(ids) |->
            [_id |-> ids[k], userId |-> ns[ids[k]].userId, type |-> ns[ids[k]].type,
             message |-> ns[ids[k]].message, isRead |-> ns[ids[k]].isRead,
             taskId |-> IF ns[ids[k]].taskId \in DOMAIN ts THEN ns[ids[k]].taskId
                        ELSE Null]]

markAsReadToggle(ns, id) ==
    IF id \in 1..Len(ns) THEN [ns EXCEPT ![id].isRead = ~@] ELSE ns

\* Notification.findByIdAndUpdate(id, { isRead: true })
markAsRead(ns, id) ==
    IF id \in 1..Len(ns) THEN [ns EXCEPT ![id].isRead = TRUE] ELSE ns

markAllAsReadForEveryone(ns, userId) ==
    [i \in 1..Len(ns) |-> [ns[i] EXCEPT !.isRead = TRUE]]

\* Notification.updateMany({ userId, isRead: false }, { isRead: true })
markAllAsRead(ns, userId) ==
    [i \in 1..Len(ns) |->
        IF ns[i].userId = userId /\ ~ns[i].isRead THEN [ns[i] EXCEPT !.isRead = TRUE]
        ELSE ns[i]]

\* result.modifiedCount of that updateMany
modifiedCount(ns, userId) ==
    Cardinality({i \in 1..Len(ns) : ns[i].userId = userId /\ ~ns[i].isRead})

\* Notification.countDocuments({ userId, isRead: false })
getUnreadCount(ns, userId) ==
    Cardinality({i \in 1..Len(ns) : ns[i].userId = userId /\ ~ns[i].isRead})

\* ---- notification endpoints
GetNotifications(p, token, unreadOnly) ==
    /\ Free(p)
    /\ token.signed => token.userId \in tokens
    /\ LET userId == authenticate(token)
           r == [NoReq EXCEPT !.op = "getNotifications", !.cred = token,
                              !.userId = userId]
       IN  Step(p, IF userId = Null THEN Unauthorized(r)
                   ELSE Respond([r EXCEPT !.query.unreadOnly = unreadOnly,
                                          !.result = findByUser(notifs, tasks, userId,
                                                                unreadOnly)],
                                200, ""))
    /\ UNCHANGED <<authVars, taskVars, notifs, sockets>>

MarkAsRead(p, token, id) ==
    /\ Free(p)
    /\ token.signed => token.userId \in tokens
    /\ LET userId == authenticate(token)
           r == [NoReq EXCEPT !.op = "markAsRead", !.cred = token, !.userId = userId,
                              !.notificationId = id]
       IN  /\ notifs' = IF userId = Null THEN notifs ELSE markAsRead(notifs, id)
           /\ Step(p, IF userId = Null THEN Unauthorized(r)
                      ELSE Respond(r, 200, "Notification marked as read"))
    /\ UNCHANGED <<authVars, taskVars, sockets>>

MarkAllAsRead(p, token) ==
    /\ Free(p)
    /\ token.signed => token.userId \in tokens
    /\ LET userId == authenticate(token)
           r == [NoReq EXCEPT !.op = "markAllAsRead", !.cred = token, !.userId = userId]
       IN  /\ notifs' = IF userId = Null THEN notifs ELSE markAllAsRead(notifs, userId)
           /\ Step(p, IF userId = Null THEN Unauthorized(r)
                      ELSE Respond([r EXCEPT !.count = modifiedCount(notifs, userId)],
                                   200, "notifications marked as read"))
    /\ UNCHANGED <<authVars, taskVars, sockets>>

GetUnreadCount(p, token) ==
    /\ Free(p)
    /\ token.signed => token.userId \in tokens
    /\ LET userId == authenticate(token)
           r == [NoReq EXCEPT !.op = "getUnreadCount", !.cred = token, !.userId = userId]
       IN  Step(p, IF userId = Null THEN Unauthorized(r)
                   ELSE Respond([r EXCEPT !.count = getUnreadCount(notifs, userId)],
                                200, ""))
    /\ UNCHANGED <<authVars, taskVars, notifs, sockets>>

\* -------------------------------------------------------------- task queries
\* parseInt(val, 10) on the strings the requests carry: the leading digits, or
\* NaN when there are none.
NaN == -2

parseInt(val) ==
    CASE val = "0" -> 0
      [] val = "1" -> 1
      [] val = "2" -> 2
      [] val = "2.5" -> 2
      [] val = "3" -> 3
      [] val = "10" -> 10
      [] val = "100" -> 100
      [] val = "101" -> 101
      [] OTHER -> NaN

\* taskQuerySchema: defaults, then transform, then the range checks.
taskQuerySchema(raw) ==
    [NoQuery EXCEPT
        !.page = parseInt(IF raw.page = NoParam THEN "1" ELSE raw.page),
        !.limit = parseInt(IF raw.limit = NoParam THEN "10" ELSE raw.limit),
        !.sortBy = IF raw.sortBy = NoParam THEN "createdAt" ELSE raw.sortBy,
        !.sortOrder = IF raw.sortOrder = NoParam THEN "desc" ELSE raw.sortOrder,
        !.status = raw.status]

taskQueryValid(raw) ==
    LET q == taskQuerySchema(raw)
    IN  /\ q.page # NaN /\ q.page >= 1
        /\ q.limit # NaN /\ q.limit >= 1 /\ q.limit <= 100
        /\ q.sortBy \in {"createdAt", "dueDate", "status"}
        /\ q.sortOrder \in {"asc", "desc"}
        /\ q.status \in {NoStatus, TODO, COMPLETED}

OverdueInclusive(task, now) == task.dueDate <= now /\ task.status # COMPLETED

\* dueDate: { $lt: new Date() }, status: { $ne: TaskStatus.COMPLETED }
Overdue(task, now) == task.dueDate < now /\ task.status # COMPLETED

\* taskSchema.statics.findOverdue
findOverdue(ts, now) == {t \in DOMAIN ts : Overdue(ts[t], now)}

OfCreatorOnly(task, userId) == task.creatorId = userId

\* $or: [{ creatorId: userId }, { assignedToId: userId }]
OfUser(task, userId) == task.creatorId = userId \/ task.assignedToId = userId

\* The filter query findWithPagination builds.
Matching(ts, filters, now) ==
    {t \in DOMAIN ts :
        /\ (filters.status # NoStatus /\ ~filters.overdue) => ts[t].status = filters.status
        /\ filters.creatorId # Null => ts[t].creatorId = filters.creatorId
        /\ filters.assignedToId # Null => ts[t].assignedToId = filters.assignedToId
        /\ filters.overdue => Overdue(ts[t], now)}

\* The value sort compares: documents are created in the order of their ids,
\* and the status strings compare as strings ("Completed" < "To Do").
SortKey(task, sortBy) ==
    CASE sortBy = "createdAt" -> task._id
      [] sortBy = "dueDate" -> task.dueDate
      [] sortBy = "status" -> IF task.status = COMPLETED THEN 1 ELSE 2

\* sort(sort): the orders of the matching documents the store may return;
\* documents with equal keys come in any order.
Sorted(ts, hits, sortBy, sortOrder) ==
    {s \in [1..Cardinality(hits) -> hits] :
        /\ \A i, j \in DOMAIN s : i # j => s[i] # s[j]
        /\ \A i, j \in DOMAIN s :
              i < j => IF sortOrder = "asc"
                       THEN SortKey(ts[s[i]], sortBy) <= SortKey(ts[s[j]], sortBy)
                       ELSE SortKey(ts[s[j]], sortBy) <= SortKey(ts[s[i]], sortBy)}

floor(total, limit) == total \div limit

\* Math.ceil(total / limit), limit >= 1
ceil(total, limit) == (total + limit - 1) \div limit

\* find(query).populate(..).sort(sort).skip(skip).limit(limit) on the sorted
\* matching ids, and the pagination block computed from countDocuments(query).
Paginated(us, ts, sorted, q) ==
    LET skip == (q.page - 1) * q.limit
        ids == Limit(SubSeq(sorted, skip + 1, Len(sorted)), q.limit)
        total == Len(sorted)
        totalPages == ceil(total, q.limit)
    IN  [data |-> [k \in 1..Len(ids) |-> populate(us, ts[ids[k]])],
         pagination |->
            [total |-> total, page |-> q.page, limit |-> q.limit,
             totalPages |-> totalPages,
             hasNextPage |-> q.page < totalPages,
             hasPrevPage |-> q.page > 1]]

\* authenticate, validate(taskQuerySchema, 'query'), then the controller with
\* the documents hits(q) the repository's query matches.
PaginatedEndpoint(p, r, raw, hits) ==
    IF r.userId = Null THEN Step(p, Unauthorized(r))
    ELSE IF ~taskQueryValid(raw)
         THEN Step(p, Respond([r EXCEPT !.raw = raw], 400, "Validation failed"))
    ELSE LET q == taskQuerySchema(raw)
         IN  \E sorted \in Sorted(tasks, hits, q.sortBy, q.sortOrder) :
                LET page == Paginated(users, tasks, sorted, q)
                IN  Step(p, Respond([r EXCEPT !.raw = raw,
                                              !.query = q, !.result = page.data,
                                              !.pagination = page.pagination],
                                    200, ""))

\* ---- taskRepository.findWithPagination, called with any TaskFilters
FindWithPagination(p, filters, raw, now) ==
    /\ Free(p)
    /\ taskQueryValid(raw)
    /\ LET q == taskQuerySchema(raw)
           r == [NoReq EXCEPT !.op = "findWithPagination", !.filters = filters,
                              !.now = now, !.raw = raw, !.query = q]
       IN  \E sorted \in Sorted(tasks, Matching(tasks, filters, now), q.sortBy, q.sortOrder) :
              LET page == Paginated(users, tasks, sorted, q)
              IN  Step(p, Respond([r EXCEPT !.result = page.data,
                                            !.pagination = page.pagination], 0, ""))
    /\ UNCHANGED <<authVars, taskVars, notifs, sockets>>

\* ---- GET /api/tasks
GetTasks(p, token, raw) ==
    /\ Free(p)
    /\ token.signed => token.userId \in tokens
    /\ LET userId == authenticate(token)
           r == [NoReq EXCEPT !.op = "getTasks", !.cred = token, !.userId = userId]
           filters == [NoFilters EXCEPT !.status = raw.status]
       IN  PaginatedEndpoint(p, r, raw, Matching(tasks, filters, Null))
    /\ UNCHANGED <<authVars, taskVars, notifs, sockets>>

\* ---- GET /api/tasks/:id
GetTaskById(p, token, taskId) ==
    /\ Free(p)
    /\ token.signed => token.userId \in tokens
    /\ LET userId == authenticate(token)
           r == [NoReq EXCEPT !.op = "getTaskById", !.cred = token, !.userId = userId,
                              !.taskId = taskId]
           task == populate(users, findById(tasks, taskId))
       IN  Step(p, IF userId = Null THEN Unauthorized(r)
                   ELSE IF task._id = Null THEN Respond(r, 404, "Task not found")
                   ELSE Respond([r EXCEPT !.task = task], 200, ""))
    /\ UNCHANGED <<authVars, taskVars, notifs, sockets>>

\* ---- GET /api/tasks/dashboard/assigned
GetAssignedTasks(p, token, raw) ==
    /\ Free(p)
    /\ token.signed => token.userId \in tokens
    /\ LET userId == authenticate(token)
           r == [NoReq EXCEPT !.op = "getAssignedTasks", !.cred = token,
                              !.userId = userId]
           filters == [NoFilters EXCEPT !.assignedToId = userId]
       IN  PaginatedEndpoint(p, r, raw, Matching(tasks, filters, Null))
    /\ UNCHANGED <<authVars, taskVars, notifs, sockets>>

\* ---- GET /api/tasks/dashboard/created
GetCreatedTasks(p, token, raw) ==
    /\ Free(p)
    /\ token.signed => token.userId \in tokens
    /\ LET userId == authenticate(token)
           r == [NoReq EXCEPT !.op = "getCreatedTasks", !.cred = token,
                              !.userId = userId]
           filters == [NoFilters EXCEPT !.creatorId = userId]
       IN  PaginatedEndpoint(p, r, raw, Matching(tasks, filters, Null))
    /\ UNCHANGED <<authVars, taskVars, notifs, sockets>>

\* ---- GET /api/tasks/dashboard/overdue; now is what new Date() reads.
GetOverdueTasks(p, token, raw, now) ==
    /\ Free(p)
    /\ token.signed => token.userId \in tokens
    /\ LET userId == authenticate(token)
           r == [NoReq EXCEPT !.op = "getOverdueTasks", !.cred = token,
                              !.userId = userId, !.now = now]
       IN  \* the filter query findOverdueForUser builds
           PaginatedEndpoint(p, r, raw,
               {t \in DOMAIN tasks : OfUser(tasks[t], userId) /\ Overdue(tasks[t], now)})
    /\ UNCHANGED <<authVars, taskVars, notifs, sockets>>

\* ------------------------------------------------------------ specifications
\* The auth service alone, from an empty user collection.
Init ==
    /\ users = <<>>
    /\ otps = [e \in EmailKeys |-> NoOtp]
    /\ tokens = {}
    /\ tasks = [t \in {} |-> NullTask]
    /\ nextTaskId = 1
    /\ notifs = <<>>
    /\ reqs = [p \in Procs |-> NoReq]
    /\ resp = NoReq
    /\ sockets = NoSockets
    /\ resetOtps = [e \in EmailKeys |-> NoOtp]

NextAuth ==
    \/ \E p \in Procs, e \in RawEmails : Register(p, e)
    \/ \E p \in Procs, c \in OtpCodes : StoreVerificationOtp(p, c)
    \/ \E p \in Procs : RegisterCreateUser(p)
    \/ \E p \in Procs, ok \in BOOLEAN : SendVerificationOtp(p, ok)
    \/ \E p \in Procs, e \in RawEmails, c \in OtpCodes : VerifyOtp(p, e, c)
    \/ \E p \in Procs : VerifyGetOtp(p)
    \/ \E p \in Procs : VerifySetVerified(p)
    \/ \E p \in Procs : VerifyDeleteOtp(p)
    \/ \E p \in Procs, e \in RawEmails : ResendOtp(p, e)
    \/ \E e \in EmailKeys : OtpExpire(e)
    \/ SendResponse

SpecAuth == Init /\ [][NextAuth]_vars

\* The real-time channel: sessions connect, authenticate, join and leave, while
\* the controllers emit task events and targeted alerts.
InitSocket ==
    /\ users = <<[email |-> "a@x.io", isVerified |-> TRUE, password |-> hash(RegisterPassword)],
                 [email |-> "b@x.io", isVerified |-> TRUE, password |-> hash(RegisterPassword)]>>
    /\ otps = [e \in EmailKeys |-> NoOtp]
    /\ tokens = {1, 2}
    /\ tasks = [t \in {} |-> NullTask]
    /\ nextTaskId = 1
    /\ notifs = <<>>
    /\ reqs = [p \in Procs |-> NoReq]
    /\ resp = NoReq
    /\ sockets = NoSockets
    /\ resetOtps = [e \in EmailKeys |-> NoOtp]

NextSocket ==
    \/ \E s \in SocketIds : Connect(s)
    \/ \E s \in SocketIds : Disconnect(s)
    \/ \E s \in SocketIds, c \in Creds \cup {NoCred} : Authenticate(s, c)
    \/ \E s \in SocketIds : JoinTaskboard(s)
    \/ \E s \in SocketIds : LeaveTaskboard(s)
    \/ \E e \in TaskEvents : EmitTaskEvent(e)
    \/ \E u \in UserIds : NotifyUser(u)

SpecSocket == InitSocket /\ [][NextSocket]_vars

\* The protected endpoints, one request at a time, called with every kind of
\* credential.  The stores start empty, or hold two tasks (task 1 of user 1
\* assigned to user 2, task 2 of user 2 assigned to user 1) and some of the
\* notifications those assignments created, read or unread.
MaxSeeded == 2

ApiProcs == {1}

ApiCreds == Creds \cup {NoCred}

\* The query strings sent: the defaults with limit 100, page 0, limit 101.
ApiQueries ==
    {[page |-> page, limit |-> limit, sortBy |-> NoParam, sortOrder |-> NoParam,
      status |-> NoStatus] : page \in {NoParam, "0"}, limit \in {"100", "101"}}

SeedTasks ==
    [t \in {1, 2} |->
        [_id |-> t, creatorId |-> t, assignedToId |-> 3 - t, status |-> TODO,
         dueDate |-> DueDate]]

InitApi ==
    /\ users = <<[email |-> "a@x.io", isVerified |-> TRUE, password |-> hash(RegisterPassword)],
                 [email |-> "b@x.io", isVerified |-> TRUE, password |-> hash(RegisterPassword)]>>
    /\ otps = [e \in EmailKeys |-> NoOtp]
    /\ tokens = {1, 2}
    /\ \/ /\ tasks = [t \in {} |-> NullTask]
          /\ nextTaskId = 1
          /\ notifs = <<>>
       \/ /\ tasks = SeedTasks
          /\ nextTaskId = 3
          /\ notifs \in {ns \in UNION {[1..n -> [userId : {1, 2}, type : {"task_assigned"},
                                   message : {"You have been assigned a new task"},
                                   taskId : {1, 2}, isRead : BOOLEAN]] :
                                          n \in 0..MaxSeeded} :
                            \A i \in 1..Len(ns) : ns[i].userId = 3 - ns[i].taskId}
    /\ reqs = [p \in Procs |-> NoReq]
    /\ resp = NoReq
    /\ sockets = NoSockets
    /\ resetOtps = [e \in EmailKeys |-> NoOtp]

NextApi ==
    \/ \E p \in ApiProcs, c \in ApiCreds, b \in RawCreateBodies : CreateTask(p, c, b)
    \/ \E p \in ApiProcs : CreateTaskSave(p)
    \/ \E p \in ApiProcs : CreateTaskNotify(p)
    \/ \E p \in ApiProcs, emits \in BOOLEAN : CreateTaskRespond(p, emits)
    \/ \E p \in ApiProcs, c \in ApiCreds, t \in TaskIds, b \in RawUpdateBodies :
            UpdateTask(p, c, t, b)
    \/ \E p \in ApiProcs : UpdateTaskCheckAssignee(p)
    \/ \E p \in ApiProcs, emits \in BOOLEAN : UpdateTaskWrite(p, emits)
    \/ \E p \in ApiProcs, emits \in BOOLEAN : UpdateTaskNotify(p, emits)
    \/ \E p \in ApiProcs, emits \in BOOLEAN : UpdateTaskAlert(p, emits)
    \/ \E p \in ApiProcs, c \in ApiCreds, t \in TaskIds : DeleteTask(p, c, t)
    \/ \E p \in ApiProcs, emits \in BOOLEAN : DeleteTaskRemove(p, emits)
    \/ \E p \in ApiProcs, c \in ApiCreds, q \in ApiQueries : GetTasks(p, c, q)
    \/ \E p \in ApiProcs, c \in ApiCreds, t \in TaskIds : GetTaskById(p, c, t)
    \/ \E p \in ApiProcs, c \in ApiCreds, q \in ApiQueries : GetAssignedTasks(p, c, q)
    \/ \E p \in ApiProcs, c \in ApiCreds, q \in ApiQueries : GetCreatedTasks(p, c, q)
    \/ \E p \in ApiProcs, c \in ApiCreds, q \in ApiQueries, now \in Times :
            GetOverdueTasks(p, c, q, now)
    \/ \E p \in ApiProcs, c \in ApiCreds, b \in BOOLEAN : GetNotifications(p, c, b)
    \/ \E p \in ApiProcs, c \in ApiCreds, n \in 1..MaxSeeded : MarkAsRead(p, c, n)
    \/ \E p \in ApiProcs, c \in ApiCreds : MarkAllAsRead(p, c)
    \/ \E p \in ApiProcs, c \in ApiCreds : GetUnreadCount(p, c)
    \/ SendResponse

SpecApi == InitApi /\ [][NextApi]_vars

\* Listing from stores of every size up to MaxListed, in which every second,
\* every third or only the last notification is for user 2 (the others for
\* user 1) and every one, every second or none is read.
MaxListed == 53

GenNotifications(n, ofUser2, read) ==
    [i \in 1..n |->
        [userId |-> IF i % ofUser2 = 0 THEN 2 ELSE 1, type |-> "task_assigned",
         message |-> "You have been assigned a new task",
         taskId |-> IF i % ofUser2 = 0 THEN 1 ELSE 2,
         isRead |-> i % read = 0]]

InitList ==
    /\ users = <<[email |-> "a@x.io", isVerified |-> TRUE, password |-> hash(RegisterPassword)],
                 [email |-> "b@x.io", isVerified |-> TRUE, password |-> hash(RegisterPassword)]>>
    /\ otps = [e \in EmailKeys |-> NoOtp]
    /\ tokens = {1, 2}
    /\ tasks = SeedTasks
    /\ nextTaskId = 3
    /\ \E n \in 0..MaxListed, ofUser2 \in {2, 3, MaxListed},
             read \in {1, 2, MaxListed + 1} :
          notifs = GenNotifications(n, ofUser2, read)
    /\ reqs = [p \in Procs |-> NoReq]
    /\ resp = NoReq
    /\ sockets = NoSockets
    /\ resetOtps = [e \in EmailKeys |-> NoOtp]

NextList ==
    \/ \E p \in ApiProcs, c \in ApiCreds, b \in BOOLEAN : GetNotifications(p, c, b)
    \/ SendResponse

SpecList == InitList /\ [][NextList]_vars

\* The task queries, over every store of fewer than MaxQueryTasks tasks of two
\* users, each task open and due at 1 or 2, or completed and due at 1, and
\* over the stores of MaxQueryTasks such tasks that user 1 created.
MaxQueryTasks == 3

TaskShapes ==
    [creatorId : {1, 2}, assignedToId : {1, 2},
     state : {<<TODO, 1>>, <<TODO, 2>>, <<COMPLETED, 1>>}]

StoreOf(shapes) ==
    [t \in DOMAIN shapes |->
        [_id |-> t, creatorId |-> shapes[t].creatorId,
         assignedToId |-> shapes[t].assignedToId,
         status |-> shapes[t].state[1], dueDate |-> shapes[t].state[2]]]

\* The query strings sent: page absent (1), 2, 3 or 0; limit 1, 2.5 (read as
\* 2), 100 or 101; the default order, by due date or by status.
RawQueries(statuses) ==
    {[page |-> page, limit |-> limit, sortBy |-> sort[1], sortOrder |-> sort[2],
      status |-> status] :
        page \in {NoParam, "2", "3", "0"}, limit \in {"1", "2.5", "100", "101"},
        sort \in {<<NoParam, NoParam>>, <<"dueDate", "asc">>, <<"status", "desc">>},
        status \in statuses}

InitQuery ==
    /\ users = <<[email |-> "a@x.io", isVerified |-> TRUE, password |-> hash(RegisterPassword)],
                 [email |-> "b@x.io", isVerified |-> TRUE, password |-> hash(RegisterPassword)]>>
    /\ otps = [e \in EmailKeys |-> NoOtp]
    /\ tokens = {1, 2}
    /\ \E n \in 0..MaxQueryTasks :
          /\ tasks \in {StoreOf(shapes) :
                         shapes \in [1..n -> IF n < MaxQueryTasks THEN TaskShapes
                                             ELSE {s \in TaskShapes : s.creatorId = 1}]}
          /\ nextTaskId = n + 1
    /\ notifs = <<>>
    /\ reqs = [p \in Procs |-> NoReq]
    /\ resp = NoReq
    /\ sockets = NoSockets
    /\ resetOtps = [e \in EmailKeys |-> NoOtp]

NextQuery ==
    \/ \E p \in ApiProcs, u \in {1, 2}, q \in RawQueries({NoStatus, TODO}) :
            GetTasks(p, Token(u), q)
    \/ \E p \in ApiProcs, u \in {1, 2}, q \in RawQueries({NoStatus}) :
            GetAssignedTasks(p, Token(u), q)
    \/ \E p \in ApiProcs, u \in {1, 2}, q \in RawQueries({NoStatus}) :
            GetCreatedTasks(p, Token(u), q)
    \/ \E p \in ApiProcs, u \in {1, 2}, q \in RawQueries({NoStatus}), now \in Times :
            GetOverdueTasks(p, Token(u), q, now)
    \/ SendResponse

SpecQuery == InitQuery /\ [][NextQuery]_vars

\* The repository's filter query over the same stores, with every combination
\* of the status, creator, assignee and overdue filters, on one page.
NextFilter ==
    \/ \E p \in ApiProcs, now \in Times,
          f \in [status : {NoStatus, TODO, COMPLETED}, creatorId : {Null, 1, 2},
                 assignedToId : {Null, 1, 2}, overdue : BOOLEAN] :
            FindWithPagination(p, f, [NoRawQuery EXCEPT !.limit = "100"], now)
    \/ SendResponse

SpecFilter == InitQuery /\ [][NextFilter]_vars

\* Login and password reset behind the rate limiter, two requests at a time:
\* user 1 is verified; user 2 is unverified or not registered.
AccountEmails == {"A@x.io", "b@x.io"}

InitAccount ==
    /\ users \in {<<[email |-> "a@x.io", isVerified |-> TRUE,
                     password |-> hash(RegisterPassword)]>>,
                  <<[email |-> "a@x.io", isVerified |-> TRUE,
                     password |-> hash(RegisterPassword)],
                    [email |-> "b@x.io", isVerified |-> FALSE,
                     password |-> hash(RegisterPassword)]>>}
    /\ otps = [e \in EmailKeys |-> NoOtp]
    /\ tokens = {}
    /\ tasks = [t \in {} |-> NullTask]
    /\ nextTaskId = 1
    /\ notifs = <<>>
    /\ reqs = [p \in Procs |-> NoReq]
    /\ resp = NoReq
    /\ sockets = NoSockets
    /\ resetOtps = [e \in EmailKeys |-> NoOtp]

NextAccount ==
    \/ \E p \in Procs, e \in AccountEmails, pw \in Passwords :
            RateLimit(p, "login", e, NoOtp, pw)
    \/ \E p \in Procs, e \in AccountEmails : RateLimit(p, "forgotPassword", e, NoOtp, "")
    \/ \E p \in Procs, e \in AccountEmails, c \in OtpCodes :
            RateLimit(p, "resetPassword", e, c, "Secret2b")
    \/ \E p \in Procs, outcome \in LimiterOutcomes : RateLimitSettle(p, outcome)
    \/ \E p \in Procs : Login(p)
    \/ \E p \in Procs : LoginComparePassword(p)
    \/ \E p \in Procs : ForgotPassword(p)
    \/ \E p \in Procs, c \in OtpCodes : StoreResetOtp(p, c)
    \/ \E p \in Procs, ok \in BOOLEAN : SendPasswordResetOtp(p, ok)
    \/ \E p \in Procs : ResetPassword(p)
    \/ \E p \in Procs : ResetGetOtp(p)
    \/ \E p \in Procs : ResetUpdatePassword(p)
    \/ \E p \in Procs : ResetDeleteOtp(p)
    \/ \E e \in EmailKeys : ResetOtpExpire(e)
    \/ SendResponse

SpecAccount == InitAccount /\ [][NextAccount]_vars

\* The task workflow, started with one verified user that holds a token; a
\* second user registers and verifies while tasks are worked on.
LateEmail == "b@x.io"

InitTasks ==
    /\ users = <<[email |-> "a@x.io", isVerified |-> TRUE, password |-> hash(RegisterPassword)]>>
    /\ otps = [e \in EmailKeys |-> NoOtp]
    /\ tokens = {1}
    /\ tasks = [t \in {} |-> NullTask]
    /\ nextTaskId = 1
    /\ notifs = <<>>
    /\ reqs = [p \in Procs |-> NoReq]
    /\ resp = NoReq
    /\ sockets = NoSockets
    /\ resetOtps = [e \in EmailKeys |-> NoOtp]

NextTasks ==
    \/ \E p \in Procs : Register(p, LateEmail)
    \/ \E p \in Procs : StoreVerificationOtp(p, "100000")
    \/ \E p \in Procs : RegisterCreateUser(p)
    \/ \E p \in Procs : SendVerificationOtp(p, TRUE)
    \/ \E p \in Procs : VerifyOtp(p, LateEmail, "100000")
    \/ \E p \in Procs : VerifyGetOtp(p)
    \/ \E p \in Procs : VerifySetVerified(p)
    \/ \E p \in Procs : VerifyDeleteOtp(p)
    \/ \E p \in Procs, u \in UserIds, b \in RawCreateBodies : CreateTask(p, Token(u), b)
    \/ \E p \in Procs : CreateTaskSave(p)
    \/ \E p \in Procs : CreateTaskNotify(p)
    \/ \E p \in Procs, emits \in BOOLEAN : CreateTaskRespond(p, emits)
    \/ \E p \in Procs, u \in UserIds, t \in TaskIds, b \in RawUpdateBodies :
            UpdateTask(p, Token(u), t, b)
    \/ \E p \in Procs : UpdateTaskCheckAssignee(p)
    \/ \E p \in Procs, emits \in BOOLEAN : UpdateTaskWrite(p, emits)
    \/ \E p \in Procs, emits \in BOOLEAN : UpdateTaskNotify(p, emits)
    \/ \E p \in Procs, emits \in BOOLEAN : UpdateTaskAlert(p, emits)
    \/ \E p \in Procs, u \in UserIds, t \in TaskIds : DeleteTask(p, Token(u), t)
    \/ \E p \in Procs, emits \in BOOLEAN : DeleteTaskRemove(p, emits)
    \/ SendResponse

Spec == InitTasks /\ [][NextTasks]_vars

\* Registration, verification and login of one address from an empty user
\* collection, two requests at a time: the user logs in before, while and
\* after the account is verified, with the right and with a wrong password.
NextSignIn ==
    \/ \E p \in Procs : Register(p, LateEmail)
    \/ \E p \in Procs, c \in OtpCodes : StoreVerificationOtp(p, c)
    \/ \E p \in Procs : RegisterCreateUser(p)
    \/ \E p \in Procs, ok \in BOOLEAN : SendVerificationOtp(p, ok)
    \/ \E p \in Procs, c \in OtpCodes : VerifyOtp(p, LateEmail, c)
    \/ \E p \in Procs : VerifyGetOtp(p)
    \/ \E p \in Procs : VerifySetVerified(p)
    \/ \E p \in Procs : VerifyDeleteOtp(p)
    \/ \E e \in EmailKeys : OtpExpire(e)
    \/ \E p \in Procs, password \in Passwords : RateLimit(p, "login", LateEmail, NoOtp, password)
    \/ \E p \in Procs, outcome \in LimiterOutcomes : RateLimitSettle(p, outcome)
    \/ \E p \in Procs : Login(p)
    \/ \E p \in Procs : LoginComparePassword(p)
    \/ SendResponse

SpecSignIn == Init /\ [][NextSignIn]_vars

\* ------------------------------------------------------------------ claims
\* C1: the creatorId of a task is the user whose createTask stored it, and no
\* step of createTask, updateTask or deleteTask changes the creatorId of a
\* stored task, whatever the update body carries.
C1_CreatorIdImmutable ==
    [][\A t \in DOMAIN tasks' :
          IF t \in DOMAIN tasks
          THEN tasks'[t].creatorId = tasks[t].creatorId
          ELSE \E p \in Procs :
                  /\ reqs[p].op = "createTask" /\ reqs[p].pc = "create"
                  /\ reqs'[p].taskId = t
                  /\ tasks'[t].creatorId = reqs[p].userId]_vars

\* An update of a stored task was answered 200 (its body went through
\* updateTaskSchema, with and without a creatorId key) and the task still
\* belongs to the user who updated it.
C1_Witness ==
    /\ resp.op = "updateTask" /\ resp.status = 200
    /\ resp.data.creatorId = Undefined
    /\ resp.taskId \in DOMAIN tasks
    /\ tasks[resp.taskId].creatorId = resp.userId

\* C2: an updateTask by a user who is not the creator of the stored task is
\* never admitted past the authorization check; it is answered 403 in the
\* step that receives it, with the task store and the notification store
\* unchanged, no event emitted and no notification created.
C2_NonCreatorUpdateForbidden ==
    [][\A u \in UserIds, t \in DOMAIN tasks :
          tasks[t].creatorId # u =>
            /\ \A p \in Procs :
                  ~(/\ reqs[p].op = "none" /\ reqs'[p].op = "updateTask"
                    /\ reqs'[p].userId = u /\ reqs'[p].taskId = t)
            /\ (/\ resp = NoReq /\ reqs' = reqs /\ resp'.op = "updateTask"
                /\ resp'.userId = u /\ resp'.taskId = t)
               => /\ resp'.status = 403
                  /\ resp'.emitted = <<>> /\ resp'.notified = <<>>
                  /\ tasks' = tasks /\ notifs' = notifs]_vars

\* The assignee of a task, who is not its creator, was refused the update.
C2_Witness ==
    /\ resp.op = "updateTask" /\ resp.status = 403
    /\ resp.taskId \in DOMAIN tasks
    /\ tasks[resp.taskId].assignedToId = resp.userId
    /\ tasks[resp.taskId].creatorId # resp.userId

\* C3: a deleteTask by a user who is not the creator of the stored task is
\* never admitted: it is answered 403, the task stays as it was and nothing is
\* emitted; a deleteTask of an id that is not stored is answered 404 and
\* emits nothing.
C3_DeleteForbiddenOrNotFound ==
    [][\A u \in UserIds, t \in TaskIds :
          LET stored == t \in DOMAIN tasks
          IN  (~stored \/ tasks[t].creatorId # u) =>
                /\ \A p \in Procs :
                      ~(/\ reqs[p].op = "none" /\ reqs'[p].op = "deleteTask"
                        /\ reqs'[p].userId = u /\ reqs'[p].taskId = t)
                /\ (/\ resp = NoReq /\ reqs' = reqs /\ resp'.op = "deleteTask"
                    /\ resp'.userId = u /\ resp'.taskId = t)
                   => /\ resp'.status = IF stored THEN 403 ELSE 404
                      /\ resp'.emitted = <<>>
                      /\ tasks' = tasks /\ notifs' = notifs]_vars

\* The assignee of a stored task was refused its deletion.
C3_Witness ==
    /\ resp.op = "deleteTask" /\ resp.status = 403
    /\ resp.taskId \in DOMAIN tasks
    /\ tasks[resp.taskId].creatorId # resp.userId
    /\ resp.emitted = <<>>

\* C4: in every reachable state, under every interleaving of register,
\* verifyOtp, createTask, updateTask and deleteTask, the assignee of a stored
\* task is null or the id of an existing user whose isVerified is true.
C4_AssigneeExistsAndVerified ==
    \A t \in DOMAIN tasks :
        LET a == tasks[t].assignedToId
        IN  a # Null => UserExists(users, a) /\ users[a].isVerified

\* A task is assigned to the user who registered and verified meanwhile.
C4_Witness ==
    \E t \in DOMAIN tasks :
        /\ tasks[t].assignedToId # Null
        /\ tasks[t].assignedToId # tasks[t].creatorId

\* C5 as stated: every createTask and updateTask whose assignee resolves to no
\* user is answered 404, and every one whose assignee is unverified is
\* answered 400.
C5_AsStated ==
    [][(/\ resp = NoReq /\ resp' # NoReq
        /\ resp'.op \in {"createTask", "updateTask"}
        /\ Truthy(resp'.data.assignedToId))
       => LET a == resp'.data.assignedToId
          IN  /\ ~UserExists(users, a) => resp'.status = 404
              /\ (UserExists(users, a) /\ ~users[a].isVerified) => resp'.status = 400]_vars

\* C5 amended: a createTask, and an updateTask that its task's creator issued
\* for a stored task, is answered 404 'Assigned user not found' when the
\* assignee resolves to no user and 400 when the assignee is unverified; the
\* failing request creates and modifies no task, creates no notification and
\* emits nothing, and no request reaches its write with such an assignee.
C5_BadAssigneeRejected ==
    [][/\ \A p \in Procs :
             LET a == reqs'[p].data.assignedToId
             IN  (/\ reqs'[p].pc # reqs[p].pc
                  /\ reqs'[p].pc \in {"create", "write"}
                  /\ Truthy(a))
                 => UserExists(users, a) /\ users[a].isVerified
       /\ \A p \in Procs :
             (\/ reqs[p].pc = "checkAssignee" /\ reqs'[p].pc = "idle"
              \/ resp = NoReq /\ reqs' = reqs /\ resp'.op = "createTask")
             => LET a == resp'.data.assignedToId
                IN  /\ resp'.op \in {"createTask", "updateTask"}
                    /\ Truthy(a)
                    /\ IF ~UserExists(users, a)
                       THEN resp'.status = 404 /\ resp'.message = "Assigned user not found"
                       ELSE ~users[a].isVerified /\ resp'.status = 400
                    /\ resp'.emitted = <<>> /\ resp'.notified = <<>>
                    /\ tasks' = tasks /\ nextTaskId' = nextTaskId /\ notifs' = notifs]_vars

\* The creator's update of a stored task was refused for its unverified
\* assignee, and the task is as it was.
C5_Witness ==
    /\ resp.op = "updateTask" /\ resp.status = 400
    /\ resp.taskId \in DOMAIN tasks
    /\ tasks[resp.taskId].creatorId = resp.userId
    /\ tasks[resp.taskId].assignedToId = Null
    /\ UserExists(users, resp.data.assignedToId)
    /\ ~users[resp.data.assignedToId].isVerified

\* C6: the assigneeChanged that a successful updateTask returns is true
\* exactly when the patch supplies an assignee that differs from the task's
\* assignee before the update (null when it had none), so a null patch on an
\* unassigned task returns false.
C6_AssigneeChangedIffDiffers ==
    (resp.op = "updateTask" /\ resp.status = 200) =>
        LET prior == IF resp.previousAssigneeId = Undefined THEN Null
                     ELSE resp.previousAssigneeId
        IN  resp.assigneeChanged <=>
                (resp.data.assignedToId # Undefined /\ resp.data.assignedToId # prior)

C8_CreateNotifiesIffAssigned ==
    (resp.op = "createTask" /\ resp.status = 201) =>
        LET a == resp.data.assignedToId
            cond == Truthy(a) /\ a # resp.userId
            created == {i \in DOMAIN resp.emitted : resp.emitted[i].event = "task:created"}
            alerts == {i \in DOMAIN resp.emitted :
                          resp.emitted[i].event = "notification:assigned"}
        IN  /\ Cardinality(created) = 1
            /\ IF cond
               THEN /\ Len(resp.notified) = 1
                    /\ Cardinality(alerts) = 1
                    /\ \A i \in alerts : resp.emitted[i].room = a
               ELSE resp.notified = <<>> /\ alerts = {}

\* C9: a task id that was stored and deleted is never stored again, whatever
\* request is still in flight for it.
C9_DeletedStaysDeleted ==
    [][\A t \in TaskIds :
          (t < nextTaskId /\ t \notin DOMAIN tasks) => t \notin DOMAIN tasks']_vars

\* An update read the task, the task was deleted, and the update's write
\* found nothing to update.
C9_Witness ==
    /\ resp.op = "updateTask" /\ resp.status = 500
    /\ resp.taskId < nextTaskId
    /\ resp.taskId \notin DOMAIN tasks

\* C10: a user is created with isVerified false; isVerified turns true only in
\* the step of a verifyOtp for that user's email whose supplied code equals
\* the code it read from the store; it never turns false again; and a
\* verifyOtp for a user who is verified is answered 400 'Account already
\* verified' and changes nothing.
C10_VerifiedOnlyByMatchingOtp ==
    [][/\ Len(users') >= Len(users)
       /\ \A i \in 1..Len(users') :
             IF i > Len(users) THEN ~users'[i].isVerified
             ELSE /\ users[i].isVerified => users'[i].isVerified
                  /\ (~users[i].isVerified /\ users'[i].isVerified) =>
                        \E p \in Procs :
                            /\ reqs[p].op = "verifyOtp" /\ reqs[p].pc = "setVerified"
                            /\ reqs'[p].pc = "deleteOtp"
                            /\ findByEmail(users, reqs[p].email) = i
                            /\ reqs[p].storedOtp # NoOtp
                            /\ reqs[p].otp = reqs[p].storedOtp
       /\ \A e \in RawEmails :
             LET i == findByEmail(users, e)
             IN  (i # Null /\ users[i].isVerified) =>
                   /\ \A p \in Procs :
                         ~(/\ reqs[p].op = "none" /\ reqs'[p].op = "verifyOtp"
                           /\ reqs'[p].email = toLowerCase(e))
                   /\ (/\ resp = NoReq /\ reqs' = reqs /\ resp'.op = "verifyOtp"
                       /\ resp'.email = toLowerCase(e))
                      => /\ resp'.status = 400
                         /\ resp'.message = "Account already verified"
                         /\ UNCHANGED <<users, otps, tokens>>]_vars

\* A verified user's second verifyOtp was refused.
C10_Witness ==
    /\ resp.op = "verifyOtp" /\ resp.message = "Account already verified"
    /\ \E i \in 1..Len(users) : users[i].email = resp.email /\ users[i].isVerified

\* C11: a session is in the room user:<id> only if it sent an authenticate
\* event with a credential for id that is signed by the server and unexpired;
\* a session that never presented such a credential is in no user room and
\* has received no notification:assigned event.
C11_RoomOnlyAfterCredential ==
    \A s \in SocketIds :
        /\ sockets[s].rooms \subseteq sockets[s].presented
        /\ sockets[s].presented = {} =>
              /\ sockets[s].rooms = {}
              /\ \A e \in sockets[s].received : e.event # "notification:assigned"

\* A session whose authenticate was refused has the task broadcast and no
\* targeted event, while another session received a targeted one.
C11_Witness ==
    \E s, s2 \in SocketIds :
        /\ sockets[s].connected /\ sockets[s].presented = {}
        /\ [event |-> "authentication_error", room |-> ToSocket] \in sockets[s].received
        /\ [event |-> "task:created", room |-> Broadcast] \in sockets[s].received
        /\ \E e \in sockets[s2].received : e.event = "notification:assigned"

\* C12: a step that delivers a notification:assigned for recipient r delivers
\* it to every connected session in the room user:r and changes no other
\* session; a step that delivers a task:created, task:updated or task:deleted
\* event delivers it to every connected session, in a user room or not.
C12_TargetedToGroupBroadcastToAll ==
    [][/\ \A s \in SocketIds, r \in UserIds :
             LET ev == [event |-> "notification:assigned", room |-> r]
             IN  (ev \in sockets'[s].received /\ ev \notin sockets[s].received) =>
                   /\ r \in sockets[s].rooms
                   /\ \A s2 \in SocketIds :
                         IF sockets[s2].connected /\ r \in sockets[s2].rooms
                         THEN ev \in sockets'[s2].received
                         ELSE sockets'[s2] = sockets[s2]
       /\ \A s \in SocketIds, e \in TaskEvents :
             LET ev == [event |-> e, room |-> Broadcast]
             IN  (ev \in sockets'[s].received /\ ev \notin sockets[s].received) =>
                   \A s2 \in SocketIds :
                       sockets[s2].connected => ev \in sockets'[s2].received]_vars

\* One session has the alert for its user; the other, in another user's room,
\* does not; both have the same task broadcast.
C12_Witness ==
    \E s, s2 \in SocketIds, r \in UserIds :
        /\ [event |-> "notification:assigned", room |-> r] \in sockets[s].received
        /\ sockets[s2].connected /\ sockets[s2].rooms # {} /\ r \notin sockets[s2].rooms
        /\ \A e \in sockets[s2].received : e.event # "notification:assigned"
        /\ [event |-> "task:updated", room |-> Broadcast] \in sockets[s].received
        /\ [event |-> "task:updated", room |-> Broadcast] \in sockets[s2].received

\* C13: a mark-one-read request by a user who is not the recipient of the
\* notification leaves that notification's isRead as it was.
C13_OnlyRecipientMarksRead ==
    [][\A n \in 1..Len(notifs) :
          (/\ resp = NoReq /\ resp'.op = "markAsRead"
           /\ resp'.notificationId = n
           /\ resp'.userId # notifs[n].userId)
          => notifs'[n].isRead = notifs[n].isRead]_vars

\* C14: across the task and notification operations, a stored notification is
\* never removed, its userId, type, message and taskId never change, and its
\* isRead never goes from true to false, also when its task is deleted.
C14_NotificationsOnlyBecomeRead ==
    [][/\ Len(notifs') >= Len(notifs)
       /\ \A n \in 1..Len(notifs) :
             /\ notifs'[n].userId = notifs[n].userId
             /\ notifs'[n].type = notifs[n].type
             /\ notifs'[n].message = notifs[n].message
             /\ notifs'[n].taskId = notifs[n].taskId
             /\ notifs[n].isRead => notifs'[n].isRead]_vars

\* The task of a read notification was deleted and the notification is kept.
C14_Witness ==
    /\ resp.op = "deleteTask" /\ resp.status = 200
    /\ \E n \in 1..Len(notifs) :
          /\ notifs[n].taskId = resp.taskId
          /\ notifs[n].taskId \notin DOMAIN tasks
          /\ notifs[n].isRead

\* C15: markAllAsRead by user u sets isRead on the notifications of u and on
\* no other, answers the number of notifications of u that were unread, and
\* leaves u with an unread count of 0, so that a second markAllAsRead by u in
\* that state changes 0 notifications.
C15_MarkAllReadExactlyOwn ==
    [][(resp = NoReq /\ resp'.op = "markAllAsRead" /\ resp'.status = 200) =>
          LET u == resp'.userId
              unread == {n \in 1..Len(notifs) : notifs[n].userId = u /\ ~notifs[n].isRead}
          IN  /\ Len(notifs') = Len(notifs)
              /\ \A n \in 1..Len(notifs) :
                    notifs'[n] = IF n \in unread THEN [notifs[n] EXCEPT !.isRead = TRUE]
                                 ELSE notifs[n]
              /\ resp'.count = Cardinality(unread)
              /\ getUnreadCount(notifs', u) = 0
              /\ modifiedCount(notifs', u) = 0]_vars

\* A markAllAsRead changed a notification while another user's notification
\* stays unread.
C15_Witness ==
    /\ resp.op = "markAllAsRead" /\ resp.status = 200 /\ resp.count >= 1
    /\ \E n, m \in 1..Len(notifs) :
          /\ notifs[n].userId = resp.userId /\ notifs[n].isRead
          /\ notifs[m].userId # resp.userId /\ ~notifs[m].isRead

\* C16: the list answered to user u holds only notifications of u, only
\* unread ones when unreadOnly is set, newest first, as they are stored; it
\* holds all of them when they are at most 50 and else the 50 newest.
C16_ListOwnNewestFirstAtMost50 ==
    (resp.op = "getNotifications" /\ resp.status = 200) =>
        LET u == resp.userId
            res == resp.result
            matching == {i \in 1..Len(notifs) :
                            /\ notifs[i].userId = u
                            /\ resp.query.unreadOnly => ~notifs[i].isRead}
            listed == {res[k]._id : k \in 1..Len(res)}
        IN  /\ listed \subseteq matching
            /\ \A k \in 1..Len(res) :
                  /\ res[k].userId = u
                  /\ res[k].isRead = notifs[res[k]._id].isRead
                  /\ res[k].message = notifs[res[k]._id].message
                  /\ resp.query.unreadOnly => ~res[k].isRead
                  /\ k < Len(res) => res[k]._id > res[k + 1]._id
            /\ Len(res) = IF Cardinality(matching) < 50 THEN Cardinality(matching) ELSE 50
            /\ \A i \in matching \ listed : \A j \in listed : i < j

\* A user with more than 50 unread notifications was answered the 50 newest.
C16_Witness ==
    /\ resp.op = "getNotifications" /\ resp.status = 200
    /\ resp.query.unreadOnly
    /\ Len(resp.result) = 50
    /\ Cardinality({i \in 1..Len(notifs) :
                       notifs[i].userId = resp.userId /\ ~notifs[i].isRead}) > 50
    /\ \E i \in 1..Len(notifs) : notifs[i].userId # resp.userId


\* C17: every paginated answer, for the N tasks of the store that match the
\* endpoint's filter, page size L in 1..100 and page p >= 1, reports total = N,
\* totalPages = ceil(N/L), hasNextPage iff p < totalPages, hasPrevPage iff
\* p > 1, and holds the matching tasks at positions (p-1)*L+1 .. min(p*L, N)
\* of an order sorted by the requested key (none when (p-1)*L >= N).
C17_PageOfSortedMatches ==
    (resp.status = 200 /\ resp.op \in {"getTasks", "getAssignedTasks",
                                       "getCreatedTasks", "getOverdueTasks"}) =>
        LET L == resp.query.limit
            p == resp.query.page
            u == resp.userId
            M == {t \in DOMAIN tasks :
                    CASE resp.op = "getTasks" ->
                            resp.query.status # NoStatus =>
                                tasks[t].status = resp.query.status
                      [] resp.op = "getAssignedTasks" -> tasks[t].assignedToId = u
                      [] resp.op = "getCreatedTasks" -> tasks[t].creatorId = u
                      [] resp.op = "getOverdueTasks" ->
                            /\ tasks[t].creatorId = u \/ tasks[t].assignedToId = u
                            /\ tasks[t].dueDate < resp.now
                            /\ tasks[t].status # COMPLETED}
            N == Cardinality(M)
            pages == CHOOSE k \in 0..N : k * L >= N /\ (k > 0 => (k - 1) * L < N)
            first == (p - 1) * L + 1
            last == IF p * L < N THEN p * L ELSE N
            key(t) == SortKey(tasks[t], resp.query.sortBy)
        IN  /\ L \in 1..100 /\ p >= 1
            /\ resp.pagination.total = N
            /\ resp.pagination.totalPages = pages
            /\ resp.pagination.hasNextPage <=> p < pages
            /\ resp.pagination.hasPrevPage <=> p > 1
            /\ resp.pagination.page = p /\ resp.pagination.limit = L
            /\ \E s \in [1..N -> M] :
                  /\ \A i, j \in 1..N : i # j => s[i] # s[j]
                  /\ \A i, j \in 1..N :
                        i < j => IF resp.query.sortOrder = "asc" THEN key(s[i]) <= key(s[j])
                                 ELSE key(s[i]) >= key(s[j])
                  /\ Len(resp.result) = (IF first > N THEN 0 ELSE last - first + 1)
                  /\ \A k \in 1..Len(resp.result) :
                        resp.result[k]._id = s[first + k - 1]

\* A second, partial page: three matching tasks in pages of two.
C17_Witness ==
    /\ resp.status = 200 /\ resp.op = "getTasks"
    /\ resp.pagination.total = 3 /\ resp.query.limit = 2 /\ resp.query.page = 2
    /\ Len(resp.result) = 1
    /\ resp.pagination.totalPages = 2
    /\ ~resp.pagination.hasNextPage /\ resp.pagination.hasPrevPage

\* C18: a task is reported overdue iff its dueDate is strictly earlier than
\* the current time and its status is not Completed: the overdue dashboard
\* lists no other task of the user and counts every such task, and findOverdue
\* selects exactly those tasks; a task due exactly now and a Completed task
\* are not overdue.
C18_OverdueIffPastDueAndOpen ==
    /\ \A now \in Times :
          findOverdue(tasks, now) =
              {t \in DOMAIN tasks :
                  tasks[t].dueDate < now /\ tasks[t].status # COMPLETED}
    /\ (resp.op = "getOverdueTasks" /\ resp.status = 200) =>
          LET mine == {t \in DOMAIN tasks :
                          tasks[t].creatorId = resp.userId
                              \/ tasks[t].assignedToId = resp.userId}
              listed == {resp.result[k]._id : k \in 1..Len(resp.result)}
          IN  /\ \A t \in listed :
                    /\ tasks[t].dueDate < resp.now
                    /\ tasks[t].dueDate # resp.now
                    /\ tasks[t].status # COMPLETED
              /\ resp.pagination.total =
                    Cardinality({t \in mine : /\ tasks[t].dueDate < resp.now
                                              /\ tasks[t].status # COMPLETED})
              /\ (resp.query.page = 1 /\ resp.query.limit >= Cardinality(mine)) =>
                    \A t \in mine :
                        t \in listed <=> /\ tasks[t].dueDate < resp.now
                                         /\ tasks[t].status # COMPLETED

\* The user's dashboard lists a task past due and leaves out a task due
\* exactly now and a Completed task past due.
C18_Witness ==
    /\ resp.op = "getOverdueTasks" /\ resp.status = 200
    /\ resp.query.page = 1 /\ resp.query.limit = 100
    /\ Len(resp.result) = 1
    /\ \E a, b, c \in DOMAIN tasks :
          /\ tasks[a].creatorId = resp.userId /\ tasks[b].creatorId = resp.userId
          /\ tasks[c].creatorId = resp.userId
          /\ resp.result[1]._id = a
          /\ tasks[a].dueDate < resp.now /\ tasks[a].status = TODO
          /\ tasks[b].dueDate = resp.now /\ tasks[b].status = TODO
          /\ tasks[c].dueDate < resp.now /\ tasks[c].status = COMPLETED

\* C19: the overdue dashboard of user u answers with exactly the overdue tasks
\* that u created or is assigned to, each once, and none u has no part in;
\* the assigned dashboard with exactly the tasks assigned to u and the created
\* dashboard with exactly the tasks u created.
C19_DashboardsScopedToCaller ==
    (resp.status = 200 /\ resp.op \in {"getAssignedTasks", "getCreatedTasks",
                                       "getOverdueTasks"}) =>
        LET u == resp.userId
            res == resp.result
            expected ==
                CASE resp.op = "getAssignedTasks" ->
                        {t \in DOMAIN tasks : tasks[t].assignedToId = u}
                  [] resp.op = "getCreatedTasks" ->
                        {t \in DOMAIN tasks : tasks[t].creatorId = u}
                  [] resp.op = "getOverdueTasks" ->
                        {t \in DOMAIN tasks :
                            /\ tasks[t].creatorId = u \/ tasks[t].assignedToId = u
                            /\ tasks[t].dueDate < resp.now
                            /\ tasks[t].status # COMPLETED}
            listed == {res[k]._id : k \in 1..Len(res)}
        IN  /\ u \in {1, 2}
            /\ listed \subseteq expected
            /\ \A i, j \in 1..Len(res) : i # j => res[i]._id # res[j]._id
            /\ resp.pagination.total = Cardinality(expected)
            /\ (resp.query.page = 1 /\ resp.query.limit >= Cardinality(expected)) =>
                    listed = expected

\* The overdue dashboard of a user who both created and is assigned to an
\* overdue task lists it once and leaves out an overdue task of the other user.
C19_Witness ==
    /\ resp.status = 200 /\ resp.op = "getOverdueTasks"
    /\ Len(resp.result) = 1 /\ resp.pagination.total = 1
    /\ resp.query.page = 1 /\ resp.query.limit = 100
    /\ \E a, b \in DOMAIN tasks :
          /\ resp.result[1]._id = a
          /\ tasks[a].creatorId = resp.userId /\ tasks[a].assignedToId = resp.userId
          /\ tasks[b].creatorId # resp.userId /\ tasks[b].assignedToId # resp.userId
          /\ tasks[b].dueDate < resp.now /\ tasks[b].status = TODO

\* C20: authentication fails closed: a request to a task or notification
\* endpoint whose credential is missing, not validly signed or expired is
\* answered 401 in its first step, which changes no user, task or notification
\* and emits no event; a handler of these endpoints is only ever in flight
\* with a valid credential, acting for the user the credential names.
C20_AuthenticationFailsClosed ==
    [][LET Protected == {"createTask", "updateTask", "deleteTask", "getTasks",
                         "getTaskById", "getAssignedTasks", "getCreatedTasks",
                         "getOverdueTasks", "getNotifications", "markAsRead",
                         "markAllAsRead", "getUnreadCount"}
           Valid(cred) == cred # NoCred /\ cred.signed /\ ~cred.expired
       IN  /\ \A p \in Procs :
                 reqs'[p].op \in Protected =>
                     Valid(reqs'[p].cred) /\ reqs'[p].userId = reqs'[p].cred.userId
           /\ (resp'.op \in Protected /\ ~Valid(resp'.cred)) =>
                 /\ resp'.status = 401
                 /\ resp'.userId = Null
                 /\ resp'.emitted = <<>> /\ resp'.notified = <<>>
                 /\ UNCHANGED <<users, otps, tokens, tasks, nextTaskId, notifs,
                                sockets, reqs, resetOtps>>
           /\ (resp'.op \in Protected /\ resp'.status # 401) =>
                 Valid(resp'.cred) /\ resp'.userId = resp'.cred.userId]_vars

\* The creator of a stored task asked to delete it with an expired token and
\* was answered 401; the task is still stored.
C20_Witness ==
    /\ resp.status = 401
    /\ resp.op = "deleteTask"
    /\ resp.cred.signed /\ resp.cred.expired
    /\ resp.taskId \in DOMAIN tasks
    /\ tasks[resp.taskId].creatorId = resp.cred.userId

\* C21: rate limiting fails open: when the limiter call throws, the request
\* is handed to the next handler exactly once and no 429 is sent; when the
\* limiter answers success = false the request gets 429 and the next handler
\* is never invoked; when it answers success = true the next handler is
\* invoked exactly once.
C21_RateLimitFailsOpen ==
    /\ \A p \in Procs :
          LET r == reqs[p]
          IN  /\ r.outcome # "blocked"
              /\ r.outcome \in {"threw", "success"} => r.pc = "next" /\ r.nexts = 1
              /\ r.op \in LimitedRoutes => r.nexts = (IF r.pc = "limit" THEN 0 ELSE 1)
    /\ resp.op \in LimitedRoutes =>
          /\ resp.status = 429 <=> resp.outcome = "blocked"
          /\ resp.outcome \notin {"threw", "success"}
          /\ resp.nexts = (IF resp.status = 429 THEN 0 ELSE 1)

\* One request was handed on after its limiter call threw, while another was
\* answered 429.
C21_Witness ==
    /\ resp.op \in LimitedRoutes /\ resp.status = 429 /\ resp.nexts = 0
    /\ \E p \in Procs :
          reqs[p].outcome = "threw" /\ reqs[p].pc = "next" /\ reqs[p].nexts = 1

\* C22: when the store mutation of a createTask, updateTask or deleteTask has
\* succeeded, a failure of the real-time emission that follows is swallowed:
\* the step that answers the request answers it with the success status.
C22_EmissionFailureSwallowed ==
    [][\A p \in Procs :
          LET r == reqs[p]
              stored == \/ r.pc \in {"refetch", "notifyUpdated", "findAssigner"}
                        \/ r.pc \in {"write", "delete"} /\ r.taskId \in DOMAIN tasks
          IN  (stored /\ reqs'[p] = NoReq /\ resp'.op = r.op)
                  => resp'.status = (IF r.op = "createTask" THEN 201 ELSE 200)]_vars

\* C23: no two users share an email compared case-insensitively.  A register
\* request is answered 409 exactly when it created no user, and then the
\* email it asked for belongs to a user someone else created; a request that
\* created a user is that email's only owner.  This holds under every
\* interleaving of two register requests.
C23_EmailUniqueRegisterConflicts ==
    /\ \A i, j \in 1..Len(users) :
          toLowerCase(users[i].email) = toLowerCase(users[j].email) => i = j
    /\ \A p \in Procs :
          (reqs[p].op = "register" /\ reqs[p].userId # Null)
              => users[reqs[p].userId].email = toLowerCase(reqs[p].email)
    /\ resp.op = "register" =>
          /\ findByEmail(users, resp.email) # Null
          /\ resp.status = 409 <=> resp.userId = Null
          /\ findByEmail(users, resp.email) # resp.userId => resp.status = 409

\* Two registers of one address interleave: the second insert is refused.
C23_Witness ==
    /\ resp.op = "register"
    /\ resp.status = 409
    /\ resp.message = "Duplicate entry. This value already exists."
    /\ Len(users) = 1
    /\ users[1].email = toLowerCase(resp.email)

\* C24: a task list query is accepted only if its page is an integer >= 1 and
\* its limit an integer in 1..100 (an omitted parameter counts as its
\* default); page 0 and limit 101 are answered 400 with nothing read from the
\* store; an omitted page, limit, sortBy or sortOrder is taken as 1, 10,
\* createdAt and desc.
C24_PageAndLimitIntegersInRange ==
    LET raw == resp.raw
        q == resp.query
        AtLeastOne == {"1", "2", "3", "10", "100", "101"}
        UpTo100 == {"0", "1", "2", "3", "10", "100"}
    IN  resp.op \in {"getTasks", "getAssignedTasks", "getCreatedTasks", "getOverdueTasks"}
            => /\ resp.status = 200 =>
                     /\ raw.page \in AtLeastOne \cup {NoParam}
                     /\ raw.limit \in (AtLeastOne \cap UpTo100) \cup {NoParam}
                     /\ raw.page = NoParam => q.page = 1
                     /\ raw.limit = NoParam => q.limit = 10
                     /\ raw.sortBy = NoParam => q.sortBy = "createdAt"
                     /\ raw.sortOrder = NoParam => q.sortOrder = "desc"
               /\ (raw.page = "0" \/ raw.limit = "101") =>
                     /\ resp.status = 400
                     /\ resp.result = <<>>
                     /\ resp.pagination = NoPagination

\* C25: a request carries its task:created, task:updated or task:deleted
\* broadcast only once its store mutation and, where one is due, its assignment
\* notification are written (before that it has emitted nothing), carries it at
\* most once, and carries it when its success response is sent; a request
\* answered with a validation, authorization, not-found or store failure has
\* emitted nothing.  The step that emits the broadcast of an update or delete
\* is the step whose store call wrote the change or the notification.
C25_BroadcastAfterWritesOnceBeforeResponse ==
    [][LET Broadcasts(y) == {k \in 1..Len(y.emitted) : y.emitted[k].room = Broadcast}
           Due(y) == IF y.op = "createTask" THEN CreateNotifies(y.data, y.userId)
                     ELSE UpdateNotifies(y.assigneeChanged, y.data, y.userId)
       IN  /\ \A x \in {reqs'[p] : p \in Procs} \cup {resp'} :
                 x.op \in {"createTask", "updateTask", "deleteTask"} =>
                   /\ Cardinality(Broadcasts(x)) <= 1
                   /\ x.pc \notin {"findAssigner", "done"} => x.emitted = <<>>
                   /\ Broadcasts(x) # {} =>
                         /\ x.emitted[1].event =
                               (CASE x.op = "createTask" -> "task:created"
                                  [] x.op = "updateTask" -> "task:updated"
                                  [] x.op = "deleteTask" -> "task:deleted")
                         /\ x.op = "createTask" => x.taskId # Null
                         /\ (x.op # "deleteTask" /\ Due(x)) => Len(x.notified) = 1
                   /\ (x.pc = "done" /\ x.status \in {200, 201}) =>
                         Cardinality(Broadcasts(x)) = 1
                   /\ (x.pc = "done" /\ (x.status \in {400, 401, 403, 404}
                                          \/ x.message = "Failed to update task")) =>
                         x.emitted = <<>>
           /\ \A p \in Procs :
                 LET r == reqs[p]
                     x == IF reqs'[p] = NoReq THEN resp' ELSE reqs'[p]
                 IN  (r # NoReq /\ reqs'[p] # r /\ Broadcasts(x) # {}
                         /\ Broadcasts(r) = {}) =>
                       /\ r.pc \in {"refetch", "write", "notifyUpdated", "delete"}
                       /\ r.pc = "write" =>
                             tasks' = updateById(tasks, r.taskId, r.data) /\ ~Due(x)
                       /\ r.pc = "notifyUpdated" => Len(notifs') = Len(notifs) + 1
                       /\ r.pc = "delete" => r.taskId \notin DOMAIN tasks']_vars

\* An update that reassigns the task answers 200 after its notification, its
\* broadcast and its alert, in that order.
C25_Witness ==
    /\ resp.op = "updateTask"
    /\ resp.status = 200
    /\ Len(resp.notified) = 1
    /\ Len(resp.emitted) = 2
    /\ resp.emitted[1].event = "task:updated"
    /\ resp.emitted[1].room = Broadcast
    /\ resp.emitted[2].event = "notification:assigned"

\* C26: when an updateTask performs its write, its assigneeChanged is the
\* comparison of the patch with the assignee stored at that moment, so two
\* updates in flight for one task that set the same new assignee are never
\* both due to create a task_assigned notification for that assignee.
C26_AssigneeChangedAgainstStored ==
    [][/\ \A p \in Procs :
             LET r == reqs[p]
             IN  (r.pc = "write" /\ reqs'[p] # r /\ r.taskId \in DOMAIN tasks) =>
                    r.assigneeChanged =
                        AssigneeChanged(r.data, previousAssigneeId(tasks[r.taskId]))
       /\ \A p, q \in Procs :
             LET Notifying(x) ==
                     /\ x.op = "updateTask"
                     /\ x.pc \in {"notifyUpdated", "findAssigner", "done"}
                     /\ x.status \in {0, 200}
                     /\ UpdateNotifies(x.assigneeChanged, x.data, x.userId)
                 x == reqs'[p]
             IN  \A y \in {reqs'[q], resp'} :
                    (p # q /\ Notifying(x) /\ Notifying(y) /\ x.taskId = y.taskId)
                        => x.data.assignedToId # y.data.assignedToId]_vars

\* C27: a listing with filters returns exactly the tasks that match every
\* filter supplied: status s, creator, assignee, and the overdue predicate,
\* combined by conjunction, so status s together with overdue gives the
\* overdue tasks of status s.
C27_FiltersCombineByConjunction ==
    resp.op = "findWithPagination" =>
        LET f == resp.filters
            listed == {resp.result[k]._id : k \in 1..Len(resp.result)}
        IN  listed = {t \in DOMAIN tasks :
                        /\ f.status # NoStatus => tasks[t].status = f.status
                        /\ f.creatorId # Null => tasks[t].creatorId = f.creatorId
                        /\ f.assignedToId # Null => tasks[t].assignedToId = f.assignedToId
                        /\ f.overdue => Overdue(tasks[t], resp.now)}

C29_TokenOnlyForVerified ==
    [][/\ tokens' # tokens =>
             /\ resp'.op \in {"login", "verifyOtp"}
             /\ resp'.status = 200
             /\ tokens' = tokens \cup {resp'.userId}
       /\ (resp'.op \in {"login", "verifyOtp"} /\ reqs' # reqs) =>
             /\ resp'.token # NoCred <=> resp'.status = 200
             /\ resp'.status = 200 =>
                   /\ resp'.token = Token(resp'.userId)
                   /\ resp'.userId \in tokens'
                   /\ UserExists(users', resp'.userId)
                   /\ users'[resp'.userId].isVerified
                   /\ users'[resp'.userId].email = toLowerCase(resp'.email)
             /\ resp'.status # 200 => tokens' = tokens
       /\ \A p \in Procs :
             LET r == reqs[p]
             IN  /\ (r.pc = "comparePassword" /\ reqs'[p] # r /\ ~r.user.isVerified
                        /\ comparePassword(r.password, r.user.password)) =>
                       /\ resp'.status = 403
                       /\ resp'.token = NoCred
                       /\ tokens' = tokens
                 /\ (r.pc = "deleteOtp" /\ reqs'[p] # r) => users[r.userId].isVerified]_vars

\* An unverified user logged in with the correct password and got 403.
C29_Witness ==
    /\ resp.op = "login"
    /\ resp.status = 403
    /\ resp.password = RegisterPassword
    /\ resp.token = NoCred
    /\ resp.userId # Null
    /\ tokens = {}

\* C30: forgotPassword does not reveal whether an email is registered: unless
\* the rate limiter refused the request, every answer is the same success, 200
\* with the one message, whether or not the email belongs to a user; and no
\* reset code is ever stored for an email that belongs to no user.
C30_ForgotPasswordRevealsNothing ==
    /\ (resp.op = "forgotPassword" /\ resp.status # 429) =>
          /\ resp.status = 200
          /\ resp.message = ForgotPasswordMessage
    /\ \A e \in EmailKeys : resetOtps[e] # NoOtp => findByEmail(users, e) # Null
====
